---- MODULE Spec2Model ----
(***************************************************************************)
(* A model of scry (src/scry.py): the gathering pipeline of the contacts   *)
(* and files commands (source selection, API adapter, browser adapter,     *)
(* merge, operator interrupts) and the download engine run_downloads.      *)
(*                                                                         *)
(* Python strings are modelled as sequences of one-character strings, so   *)
(* that lower-casing, URL parsing, extension splitting and suffixing are   *)
(* computed as the code computes them.                                     *)
(***************************************************************************)
EXTENDS Integers, Sequences, FiniteSets, TLC

\* ------------------------------------------------------------------------
\* Strings
\* ------------------------------------------------------------------------

UpperChars == <<"A","B","C","D","E","F","G","H","I","J","K","L","M",
                "N","O","P","Q","R","S","T","U","V","W","X","Y","Z">>

LowerChars == <<"a","b","c","d","e","f","g","h","i","j","k","l","m",
                "n","o","p","q","r","s","t","u","v","w","x","y","z">>

DigitChars == <<"0","1","2","3","4","5","6","7","8","9">>

Range(s) == {s[i] : i \in 1..Len(s)}

IsUpper(c) == c \in Range(UpperChars)
IsLower(c) == c \in Range(LowerChars)
IsDigit(c) == c \in Range(DigitChars)
IsAlpha(c) == IsUpper(c) \/ IsLower(c)

\* str.lower() on one character
LowerChar(c) ==
    IF IsUpper(c)
    THEN LowerChars[CHOOSE i \in 1..26 : UpperChars[i] = c]
    ELSE c

\* str.lower()
Lower(s) == [i \in 1..Len(s) |-> LowerChar(s[i])]

\* s[i:] and s[:i] with Python's 0-based slice bounds
From(s, i) == SubSeq(s, i + 1, Len(s))
Upto(s, i) == SubSeq(s, 1, i)

\* sub occurs in s at 0-based offset i
OccursAt(s, sub, i) ==
    /\ i >= 0
    /\ i + Len(sub) <= Len(s)
    /\ \A j \in 1..Len(sub) : s[i + j] = sub[j]

\* the Python test "sub in s"
Contains(s, sub) == \E i \in 0..Len(s) : OccursAt(s, sub, i)

\* str.startswith
StartsWith(s, pre) == OccursAt(s, pre, 0)

\* 0-based index of the first character of s that is in the set cs, or
\* Len(s) when there is none
FirstOf(s, cs) ==
    IF \E i \in 1..Len(s) : s[i] \in cs
    THEN (CHOOSE i \in 1..Len(s) :
             s[i] \in cs /\ \A j \in 1..(i - 1) : s[j] \notin cs) - 1
    ELSE Len(s)

\* 1-based index of the last character of s that is in cs, or 0
LastOf(s, cs) ==
    IF \E i \in 1..Len(s) : s[i] \in cs
    THEN CHOOSE i \in 1..Len(s) :
             s[i] \in cs /\ \A j \in (i + 1)..Len(s) : s[j] \notin cs
    ELSE 0

\* str.strip(chars)
StripChars(s, cs) ==
    IF \A i \in 1..Len(s) : s[i] \in cs
    THEN <<>>
    ELSE LET a == CHOOSE i \in 1..Len(s) :
                      s[i] \notin cs /\ \A j \in 1..(i - 1) : s[j] \in cs
             b == CHOOSE i \in 1..Len(s) :
                      s[i] \notin cs /\ \A j \in (i + 1)..Len(s) : s[j] \in cs
         IN SubSeq(s, a, b)

Whitespace == {" ", "\t", "\n", "\r"}

\* str.strip()
Strip(s) == StripChars(s, Whitespace)

\* ------------------------------------------------------------------------
\* urllib.parse as used by the program
\* ------------------------------------------------------------------------

HexChars == <<"0","1","2","3","4","5","6","7","8","9",
              "a","b","c","d","e","f">>

IsHex(c) == LowerChar(c) \in Range(HexChars)

HexVal(c) == (CHOOSE i \in 1..16 : HexChars[i] = LowerChar(c)) - 1

\* the printable ASCII characters, code 32 at position 1 (code 96, the grave
\* accent, is the token "GRAVE")
Ascii == <<" ","!","\"","#","$","%","&","'","(",")","*","+",",","-",".","/",
           "0","1","2","3","4","5","6","7","8","9",":",";","<","=",">","?",
           "@","A","B","C","D","E","F","G","H","I","J","K","L","M","N","O",
           "P","Q","R","S","T","U","V","W","X","Y","Z","[","\\","]","^","_",
           "GRAVE","a","b","c","d","e","f","g","h","i","j","k","l","m","n","o",
           "p","q","r","s","t","u","v","w","x","y","z","{","|","}","~">>

\* chr(n) for one decoded byte: the other control characters are the token
\* "CTL", a byte that is not ASCII decodes to the replacement character
Chr(n) ==
    IF n >= 32 /\ n <= 126 THEN Ascii[n - 31]
    ELSE IF n = 9 THEN "\t"
    ELSE IF n = 10 THEN "\n"
    ELSE IF n = 13 THEN "\r"
    ELSE IF n < 32 THEN "CTL"
    ELSE IF n = 127 THEN "DEL"
    ELSE "U+FFFD"

\* ord(c) < 32
IsControl(c) == c \in {"\t", "\n", "\r", "CTL"}

\* urllib.parse.unquote: every %XX with two hex digits becomes the character
\* of that code, anything else is kept
RECURSIVE unquote(_)
unquote(s) ==
    IF s = <<>> THEN <<>>
    ELSE IF s[1] = "%" /\ Len(s) >= 3 /\ IsHex(s[2]) /\ IsHex(s[3])
         THEN <<Chr(16 * HexVal(s[2]) + HexVal(s[3]))>> \o unquote(From(s, 3))
         ELSE <<s[1]>> \o unquote(Tail(s))

SchemeChars == Range(UpperChars) \cup Range(LowerChars) \cup Range(DigitChars)
                   \cup {"+", "-", "."}

\* urlsplit: the url with its scheme removed
AfterScheme(url) ==
    LET i == FirstOf(url, {":"})
    IN IF /\ i > 0
          /\ i < Len(url)
          /\ IsAlpha(url[1])
          /\ \A j \in 1..i : url[j] \in SchemeChars
       THEN From(url, i + 1)
       ELSE url

\* urlsplit: the url with scheme and //netloc removed
AfterNetloc(url) ==
    LET r == AfterScheme(url)
    IN IF StartsWith(r, <<"/", "/">>)
       THEN LET rest == From(r, 2)
            IN From(rest, FirstOf(rest, {"/", "?", "#"}))
       ELSE r

\* urlparse(url).netloc
UrlNetloc(url) ==
    LET r == AfterScheme(url)
    IN IF StartsWith(r, <<"/", "/">>)
       THEN LET rest == From(r, 2)
            IN Upto(rest, FirstOf(rest, {"/", "?", "#"}))
       ELSE <<>>

\* urlparse(url).path
UrlPath(url) ==
    LET r == AfterNetloc(url)
    IN Upto(r, FirstOf(r, {"?", "#"}))

\* ------------------------------------------------------------------------
\* Utilities
\* ------------------------------------------------------------------------

IsLowerAlnum(c) == IsLower(c) \/ IsDigit(c)

\* re.search(r"\.[a-z0-9]{2,5}$", s)
EndsInExtension(s) ==
    \E k \in 2..5 :
        /\ Len(s) >= k + 1
        /\ s[Len(s) - k] = "."
        /\ \A j \in (Len(s) - k + 1)..Len(s) : IsLowerAlnum(s[j])

\* re.search(r"\.[a-z0-9]{2,5}[?#]", s)
ExtensionBeforeDelimiter(s) ==
    \E i \in 1..Len(s) : \E k \in 2..5 :
        /\ i + k + 1 <= Len(s)
        /\ s[i] = "."
        /\ \A j \in (i + 1)..(i + k) : IsLowerAlnum(s[j])
        /\ s[i + k + 1] \in {"?", "#"}

\* is_file_link without the search of the whole URL
is_file_link_path_only(url) ==
    LET path == UrlPath(Lower(url))
    IN IF path = <<>> \/ path[Len(path)] = "/" THEN FALSE
       ELSE EndsInExtension(path)

is_file_link(url) ==
    LET path == UrlPath(Lower(url))
    IN IF path = <<>> \/ path[Len(path)] = "/" THEN FALSE
       ELSE IF EndsInExtension(path) THEN TRUE
       ELSE IF ExtensionBeforeDelimiter(Lower(url)) THEN TRUE
       ELSE FALSE

\* the value None, where a string is expected
None == <<"None">>

\* m.group(1) of re.search(r"[?&](?:q|url)=([^&]+)", url), or None
GoogleTarget(url) ==
    LET key(i) == IF OccursAt(url, <<"q", "=">>, i) THEN 2
                  ELSE IF OccursAt(url, <<"u", "r", "l", "=">>, i) THEN 4
                  ELSE 0
        hit(i) == /\ url[i] \in {"?", "&"}
                  /\ key(i) > 0
                  /\ i + key(i) < Len(url)
                  /\ url[i + key(i) + 1] # "&"
    IN IF \E i \in 1..Len(url) : hit(i)
       THEN LET m == CHOOSE n \in 1..Len(url) :
                         hit(n) /\ \A j \in 1..(n - 1) : ~hit(j)
                rest == From(url, m + key(m))
            IN Upto(rest, FirstOf(rest, {"&"}))
       ELSE None

clean_google_url(url) ==
    IF /\ \/ Contains(url, <<"/","u","r","l","?","q","=">>)
          \/ Contains(url, <<"/","u","r","l","?","u","r","l","=">>)
       /\ GoogleTarget(url) # None
    THEN unquote(GoogleTarget(url))
    ELSE IF StartsWith(url, <<"h","t","t","p">>) THEN url
    ELSE None


\* ------------------------------------------------------------------------
\* Bounds and program constants
\* ------------------------------------------------------------------------

\* the largest --pages value explored
MaxPages == 2

\* the largest number of dorks given to the files command
MaxDorks == 2

\* the largest number of rows / anchors one results page carries
PageSize == 2

\* the total number of rows / anchors the two sources supply in one run
MaxHits == 3

\* the largest number of URLs in a download batch
MaxBatch == 2

\* the number of times run_downloads is run on the same destination
MaxRuns == 2

\* the number of hits given to extract_names
MaxItems == 2

\* the number of candidates given to build_emails directly
MaxNames == 3

\* the number of times build_emails is called on the same inputs
MaxBuilds == 2

SERPER_MAX_PAGES == 100

\* CONTACT_QUERIES after resolve_placeholders (company Acme, domain acme.com)
CONTACT_QUERIES == << "site:linkedin.com/in/ \"Acme\"",
                      "site:rocketreach.co \"acme.com\"",
                      "site:zoominfo.com/p/ \"Acme\"" >>

\* the resolved dorks the files command is run with
DorkPool == << "site:acme.com filetype:pdf", "site:acme.com filetype:doc",
              "site:acme.com filetype:xls", "site:acme.com filetype:ppt" >>

Min(a, b) == IF a < b THEN a ELSE b

\* all sequences over S of length at most n
SeqUpTo(S, n) == UNION {[1..k -> S] : k \in 0..n}

\* ------------------------------------------------------------------------
\* What the two sources can answer
\* ------------------------------------------------------------------------

Empty == <<>>

Profile1 == <<"h","t","t","p",":","/","/","l","/","i","n","/","a","b">>
Profile2 == <<"h","t","t","p",":","/","/","l","/","i","n","/","c","d">>

TitleAb == <<"A","n"," ","B","o">>
TitleAbLower == <<"a","n"," ","b","o">>
TitleAbPadded == <<" ","a","n"," ","b","o"," ">>
TitleCd == <<"C","y"," ","D","u">>

\* rows of the "organic" list of an API answer, contacts path
ContactRows ==
    { [title |-> TitleAb, link |-> Profile1, url |-> Empty],
      [title |-> TitleAbLower, link |-> Empty, url |-> Profile1],
      [title |-> TitleCd, link |-> Profile2, url |-> Empty],
      [title |-> Empty, link |-> Empty, url |-> Empty] }

\* [h.innerText, a.href] pairs scraped from a results page, contacts path
ContactAnchors ==
    { <<TitleAbPadded, Profile1>>,
      <<TitleAb, Profile1>>,
      <<TitleCd, Profile2>>,
      <<Empty, Profile2>> }

FilePdf == <<"h","t","t","p",":","/","/","a","/","f",".","p","d","f">>
FilePdfUpper == <<"h","t","t","p",":","/","/","a","/","F",".","P","D","F">>
Directory == <<"h","t","t","p",":","/","/","a","/","d","/">>
\* a redirect wrapper around FilePdf
Wrapped == <<"h","t","t","p",":","/","/","g","/","u","r","l","?","q","=",
             "h","t","t","p","%","3","A","/","/","a","/","f",".","p","d","f",
             "&","e","=",".","a","b","#">>

\* rows of the "organic" list of an API answer, files path
FileRows ==
    { [link |-> FilePdf, url |-> Empty, sitelinks |-> <<>>],
      [link |-> Empty, url |-> FilePdfUpper,
       sitelinks |-> << [link |-> FilePdf, url |-> Empty] >>],
      [link |-> Directory, url |-> Empty,
       sitelinks |-> << [link |-> Empty, url |-> FilePdfUpper] >>] }

\* a.href values scraped from a results page, files path
FileAnchors == { FilePdf, FilePdfUpper, Directory, Wrapped, Empty }

\* what requests.post ends with in serper_search
\* (0: no answer at all, requests raised a transport error)
Statuses == { 200, 401, 429, 400, 500, 0 }

\* ------------------------------------------------------------------------
\* Serper API
\* ------------------------------------------------------------------------

\* the parsed answer (data), or None (data is FALSE): 401, 429 and 400
\* return None, any other error status raises in raise_for_status and a
\* transport error raises in requests.post, both caught as RequestException
serper_search(status, organic) ==
    IF status = 200
    THEN [data |-> TRUE, organic |-> organic]
    ELSE [data |-> FALSE, organic |-> <<>>]

\* row.get("link") or row.get("url", "")
Href(row) == IF row.link # Empty THEN row.link ELSE row.url

\* the href of a row followed by the hrefs of its sitelinks
RowCandidates(row) ==
    <<Href(row)>> \o [i \in 1..Len(row.sitelinks) |-> Href(row.sitelinks[i])]

Urls(pairs) == {pairs[i][1] : i \in 1..Len(pairs)}

\* the inner loops of serper_fetch_file_links over one row's candidates:
\* a candidate is appended if it is non-empty, file-like and not yet seen
RECURSIVE AddFileLinks(_, _, _)
AddFileLinks(cands, query, results) ==
    IF cands = <<>> THEN results
    ELSE LET u == Head(cands)
         IN IF u # Empty /\ is_file_link(u) /\ u \notin Urls(results)
            THEN AddFileLinks(Tail(cands), query, Append(results, <<u, query>>))
            ELSE AddFileLinks(Tail(cands), query, results)

\* the loop "for r in organic" of serper_fetch_file_links
RECURSIVE AddOrganicLinks(_, _, _)
AddOrganicLinks(organic, query, results) ==
    IF organic = <<>> THEN results
    ELSE AddOrganicLinks(Tail(organic), query,
                         AddFileLinks(RowCandidates(Head(organic)), query, results))

\* ------------------------------------------------------------------------
\* Playwright browser
\* ------------------------------------------------------------------------

\* playwright_fetch_titles: "for title, link in items"
RECURSIVE AddTitles(_, _)
AddTitles(items, results) ==
    IF items = <<>> THEN results
    ELSE LET title == Head(items)[1]
             link == Head(items)[2]
         IN IF title # Empty /\ link # Empty
            THEN AddTitles(Tail(items), Append(results, <<Strip(title), link>>))
            ELSE AddTitles(Tail(items), results)

\* playwright_fetch_file_links: "for href in anchors"
RECURSIVE AddAnchors(_, _, _)
AddAnchors(anchors, q, results) ==
    IF anchors = <<>> THEN results
    ELSE LET href == Head(anchors)
             c == clean_google_url(href)
         IN IF /\ href # Empty
               /\ is_file_link(href)
               /\ c # None
               /\ c # Empty
               /\ c \notin Urls(results)
            THEN AddAnchors(Tail(anchors), q, Append(results, <<c, q>>))
            ELSE AddAnchors(Tail(anchors), q, results)

\* ------------------------------------------------------------------------
\* CLI helpers and the merge loops of the two commands
\* ------------------------------------------------------------------------

\* _resolve_source without its credential check
resolve_source_exits_unchecked(src, key) == FALSE

\* _resolve_source: the case that ends in sys.exit(1)
resolve_source_exits(src, key) == src = "serper" /\ ~key

\* _resolve_source with the browser as a fallback for a missing credential
resolve_source_fallback(src, key) ==
    IF src = "serper" THEN <<TRUE, FALSE>>
    ELSE IF src = "browser" THEN <<FALSE, TRUE>>
    ELSE <<key, ~key>>

\* _resolve_source: <<use_serper, use_browser>>
resolve_source(src, key) ==
    IF src = "serper" THEN <<TRUE, FALSE>>
    ELSE IF src = "browser" THEN <<FALSE, TRUE>>
    ELSE <<key, TRUE>>

\* _ask_continue taking an interrupt or end of input for "skip"
ask_continue_skips(answer) == answer # "q"

\* _ask_continue: the answer typed, or an interrupt / end of input instead
Answers == {"s", "q", "KeyboardInterrupt", "EOFError"}

ask_continue(answer) ==
    IF answer \in {"KeyboardInterrupt", "EOFError"} THEN FALSE
    ELSE answer # "q"

\* cmd_contacts: "for row in data"
RECURSIVE OrganicItems(_)
OrganicItems(data) ==
    IF data = <<>> THEN <<>>
    ELSE LET title == Head(data).title
             href == Href(Head(data))
         IN IF title # Empty \/ href # Empty
            THEN <<<<title, href>>>> \o OrganicItems(Tail(data))
            ELSE OrganicItems(Tail(data))

\* the merge loop without its "if url not in seen"
RECURSIVE MergeLinks_unchecked(_, _)
MergeLinks_unchecked(pairs, m) ==
    IF pairs = <<>> THEN m
    ELSE MergeLinks_unchecked(Tail(pairs),
                              [all_links |-> Append(m.all_links, Head(pairs)),
                               seen |-> m.seen \cup {Head(pairs)[1]}])

\* cmd_files: "for url, dork in ...: if url not in seen"; m is the pair
\* of the list all_links and the set seen
RECURSIVE MergeLinks(_, _)
MergeLinks(pairs, m) ==
    IF pairs = <<>> THEN m
    ELSE IF Head(pairs)[1] \notin m.seen
         THEN MergeLinks(Tail(pairs),
                         [all_links |-> Append(m.all_links, Head(pairs)),
                          seen |-> m.seen \cup {Head(pairs)[1]}])
         ELSE MergeLinks(Tail(pairs), m)

\* ------------------------------------------------------------------------
\* File names of the download engine
\* ------------------------------------------------------------------------

MIME_TO_EXT ==
    { << <<"a","p","p","l","i","c","a","t","i","o","n","/","p","d","f">>,
         <<".","p","d","f">> >>,
      << <<"a","p","p","l","i","c","a","t","i","o","n","/","m","s","w","o",
         "r","d">>,
         <<".","d","o","c">> >>,
      << <<"a","p","p","l","i","c","a","t","i","o","n","/","v","n","d",".",
         "o","p","e","n","x","m","l","f","o","r","m","a","t","s","-","o",
         "f","f","i","c","e","d","o","c","u","m","e","n","t",".","w","o",
         "r","d","p","r","o","c","e","s","s","i","n","g","m","l",".","d",
         "o","c","u","m","e","n","t">>,
         <<".","d","o","c","x">> >>,
      << <<"a","p","p","l","i","c","a","t","i","o","n","/","v","n","d",".",
         "m","s","-","e","x","c","e","l">>,
         <<".","x","l","s">> >>,
      << <<"a","p","p","l","i","c","a","t","i","o","n","/","v","n","d",".",
         "o","p","e","n","x","m","l","f","o","r","m","a","t","s","-","o",
         "f","f","i","c","e","d","o","c","u","m","e","n","t",".","s","p",
         "r","e","a","d","s","h","e","e","t","m","l",".","s","h","e","e",
         "t">>,
         <<".","x","l","s","x">> >>,
      << <<"a","p","p","l","i","c","a","t","i","o","n","/","v","n","d",".",
         "m","s","-","p","o","w","e","r","p","o","i","n","t">>,
         <<".","p","p","t">> >>,
      << <<"a","p","p","l","i","c","a","t","i","o","n","/","v","n","d",".",
         "o","p","e","n","x","m","l","f","o","r","m","a","t","s","-","o",
         "f","f","i","c","e","d","o","c","u","m","e","n","t",".","p","r",
         "e","s","e","n","t","a","t","i","o","n","m","l",".","p","r","e",
         "s","e","n","t","a","t","i","o","n">>,
         <<".","p","p","t","x">> >>,
      << <<"a","p","p","l","i","c","a","t","i","o","n","/","z","i","p">>,
         <<".","z","i","p">> >>,
      << <<"a","p","p","l","i","c","a","t","i","o","n","/","x","-","z","i",
         "p","-","c","o","m","p","r","e","s","s","e","d">>,
         <<".","z","i","p">> >>,
      << <<"t","e","x","t","/","p","l","a","i","n">>,
         <<".","t","x","t">> >>,
      << <<"t","e","x","t","/","c","s","v">>,
         <<".","c","s","v">> >>,
      << <<"i","m","a","g","e","/","j","p","e","g">>,
         <<".","j","p","g">> >>,
      << <<"i","m","a","g","e","/","p","n","g">>,
         <<".","p","n","g">> >>,
      << <<"i","m","a","g","e","/","g","i","f">>,
         <<".","g","i","f">> >> }

RESERVED_NAMES ==
    { <<"C","O","N">>,
      <<"P","R","N">>,
      <<"A","U","X">>,
      <<"N","U","L">>,
      <<"C","O","M","1">>,
      <<"C","O","M","2">>,
      <<"C","O","M","3">>,
      <<"C","O","M","4">>,
      <<"C","O","M","5">>,
      <<"C","O","M","6">>,
      <<"C","O","M","7">>,
      <<"C","O","M","8">>,
      <<"C","O","M","9">>,
      <<"L","P","T","1">>,
      <<"L","P","T","2">>,
      <<"L","P","T","3">>,
      <<"L","P","T","4">>,
      <<"L","P","T","5">>,
      <<"L","P","T","6">>,
      <<"L","P","T","7">>,
      <<"L","P","T","8">>,
      <<"L","P","T","9">> }

\* MIME_TO_EXT.get(ct, "")
MimeExt(ct) ==
    IF \E e \in MIME_TO_EXT : e[1] = ct
    THEN (CHOOSE e \in MIME_TO_EXT : e[1] = ct)[2]
    ELSE <<>>

\* str.upper() on one character
UpperChar(c) ==
    IF IsLower(c)
    THEN UpperChars[CHOOSE i \in 1..26 : LowerChars[i] = c]
    ELSE c

\* str.upper()
Upper(s) == [i \in 1..Len(s) |-> UpperChar(s[i])]

\* str(n) for n >= 0
RECURSIVE Digits(_)
Digits(n) ==
    IF n < 10 THEN <<DigitChars[n + 1]>>
    ELSE Digits(n \div 10) \o <<DigitChars[(n % 10) + 1]>>

\* os.path.splitext: the 1-based index of the dot that starts the
\* extension, or 0; a dot that only follows dots at the start of the last
\* path component starts no extension
ExtensionDot(name) ==
    LET sep == LastOf(name, {"/"})
        dot == LastOf(name, {"."})
    IN IF dot > sep /\ \E k \in (sep + 1)..(dot - 1) : name[k] # "."
       THEN dot
       ELSE 0

\* os.path.splitext(name)[0]
SplitextRoot(name) ==
    IF ExtensionDot(name) = 0 THEN name
    ELSE Upto(name, ExtensionDot(name) - 1)

\* os.path.splitext(name)[1]
SplitextExt(name) ==
    IF ExtensionDot(name) = 0 THEN <<>>
    ELSE From(name, ExtensionDot(name) - 1)

\* os.path.basename
Basename(path) == From(path, LastOf(path, {"/"}))

\* name.replace(c, "_") for every c of cs
ReplaceChars(name, cs) ==
    [i \in 1..Len(name) |-> IF name[i] \in cs THEN "_" ELSE name[i]]

\* "".join(c for c in name if ord(c) >= 32)
RECURSIVE DropControl(_)
DropControl(name) ==
    IF name = <<>> THEN <<>>
    ELSE IF IsControl(Head(name)) THEN DropControl(Tail(name))
    ELSE <<Head(name)>> \o DropControl(Tail(name))

\* sanitize_filename comparing the whole name, not the name without its
\* extension, with RESERVED_NAMES
sanitize_filename_whole_name(name) ==
    LET replaced == ReplaceChars(name, {"<", ">", ":", "\"", "|", "?", "*",
                                        "/", "\\"})
        stripped == StripChars(DropControl(replaced), {".", " "})
        named == IF stripped = <<>> THEN <<"f","i","l","e">> ELSE stripped
    IN IF Upper(named) \in RESERVED_NAMES
       THEN <<"_">> \o named
       ELSE named

sanitize_filename(name) ==
    LET replaced == ReplaceChars(name, {"<", ">", ":", "\"", "|", "?", "*",
                                        "/", "\\"})
        stripped == StripChars(DropControl(replaced), {".", " "})
        named == IF stripped = <<>> THEN <<"f","i","l","e">> ELSE stripped
    IN IF Upper(SplitextRoot(named)) \in RESERVED_NAMES
       THEN <<"_">> \o named
       ELSE named

\* the first match of a regular expression "prefix([^stop]+)" in s: the
\* 0-based offset of its group, or -1
GroupStart(s, prefix, stop) ==
    LET hit(i) == /\ OccursAt(s, prefix, i)
                  /\ i + Len(prefix) < Len(s)
                  /\ s[i + Len(prefix) + 1] \notin stop
    IN IF \E i \in 0..Len(s) : hit(i)
       THEN (CHOOSE i \in 0..Len(s) : hit(i) /\ \A j \in 0..(i - 1) : ~hit(j))
                + Len(prefix)
       ELSE -1

\* the longest run of characters outside stop that starts at offset i
RunFrom(s, i, stop) ==
    LET rest == From(s, i)
    IN Upto(rest, FirstOf(rest, stop))

\* re.search(r"filename\*=UTF-8''([^;]+)", cd): group 1, or None
ExtendedFilename(cd) ==
    LET prefix == <<"f","i","l","e","n","a","m","e","*","=","U","T","F","-","8","'","'">>
        g == GroupStart(cd, prefix, {";"})
    IN IF g < 0 THEN None ELSE RunFrom(cd, g, {";"})

\* re.search(r'filename=["\']?([^"\';\s]+)', cd): group 1, or None; the
\* optional quote is taken when a group can follow it
BasicFilename(cd) ==
    LET prefix == <<"f","i","l","e","n","a","m","e","=">>
        stop == {"\"", "'", ";"} \cup Whitespace
        good(k) == k < Len(cd) /\ cd[k + 1] \notin stop
        group(i) ==
            LET a == i + Len(prefix)
            IN IF a < Len(cd) /\ cd[a + 1] \in {"\"", "'"} /\ good(a + 1)
               THEN a + 1
               ELSE IF good(a) THEN a
               ELSE -1
        hit(i) == OccursAt(cd, prefix, i) /\ group(i) >= 0
    IN IF \E i \in 0..Len(cd) : hit(i)
       THEN RunFrom(cd, group(CHOOSE i \in 0..Len(cd) :
                                  hit(i) /\ \A j \in 0..(i - 1) : ~hit(j)),
                    stop)
       ELSE None

\* run_downloads, lines 612-622: the name the headers or the URL give
SuppliedFilename(url, cd) ==
    LET fromheader ==
            IF cd = <<>> THEN None
            ELSE IF ExtendedFilename(cd) # None THEN unquote(ExtendedFilename(cd))
            ELSE IF BasicFilename(cd) # None
                 THEN StripChars(BasicFilename(cd), {"\"", "'"})
            ELSE None
    IN IF fromheader = None \/ fromheader = <<>>
       THEN unquote(Basename(UrlPath(url)))
       ELSE fromheader

\* (resp.headers.get("Content-Type") or "").split(";")[0].strip().lower()
MimeType(content_type) ==
    Lower(Strip(Upto(content_type, FirstOf(content_type, {";"}))))

ScriptExtensions == { <<".","a","s","p","x">>, <<".","p","h","p">>, <<".","j","s","p">>, <<".","c","g","i">>, <<".","a","s","p">> }

\* run_downloads, lines 625-630: a script extension gives way to the one of
\* the MIME type, and a name that is empty or has no dot to file_<idx>
CorrectedFilename(supplied_name, mime_ext, index) ==
    LET corrected ==
            IF /\ supplied_name # <<>>
               /\ Lower(SplitextExt(supplied_name)) \in ScriptExtensions
               /\ mime_ext # <<>>
            THEN SplitextRoot(supplied_name) \o mime_ext
            ELSE supplied_name
    IN IF corrected = <<>> \/ "." \notin Range(corrected)
       THEN <<"f","i","l","e","_">> \o Digits(index) \o mime_ext
       ELSE corrected

\* run_downloads, lines 612-631: the final sanitized file name; each
\* assignment to filename is computed once, from the value before it
download_filename(url, cd, content_type, index) ==
    CHOOSE filename \in
        { sanitize_filename(named) :
            named \in { CorrectedFilename(supplied_name, mime_ext, index) :
                          supplied_name \in {SuppliedFilename(url, cd)},
                          mime_ext \in {MimeExt(MimeType(content_type))} } } :
        TRUE

\* run_downloads, lines 638-644: the name itself if no file has it, else
\* base_counter.ext for the first counter 1, 2, ... no file has
RECURSIVE Suffixed(_, _, _, _)
Suffixed(base, fext, counter, names) ==
    LET candidate == base \o <<"_">> \o Digits(counter) \o fext
    IN IF candidate \in names
       THEN Suffixed(base, fext, counter + 1, names)
       ELSE candidate

\* the write going to the name as it is, whatever the directory holds
free_path_overwrites(filename, names) == filename

free_path(filename, names) ==
    IF filename \in names
    THEN Suffixed(SplitextRoot(filename), SplitextExt(filename), 1, names)
    ELSE filename

\* the loop without its resume check
skips_never(resume_on, filename, names) == FALSE

\* "if resume and os.path.exists(out_path)"
skips(resume_on, filename, names) == resume_on /\ filename \in names

\* ------------------------------------------------------------------------
\* Name extraction: extract_names and its helpers
\* ------------------------------------------------------------------------

TITLE_NOISE ==
    { <<"d","r">>,
      <<"m","r">>,
      <<"m","r","s">>,
      <<"m","s">>,
      <<"p","r","o","f">>,
      <<"s","i","r">>,
      <<"p","h","d">>,
      <<"c","p","a">>,
      <<"c","f","a">>,
      <<"t","h","e">>,
      <<"a","n","d">>,
      <<"f","o","r">>,
      <<"w","i","t","h">>,
      <<"f","r","o","m">>,
      <<"a","b","o","u","t">>,
      <<"i","n","t","o">>,
      <<"t","o","p">>,
      <<"b","e","s","t">>,
      <<"n","e","w">>,
      <<"o","l","d">>,
      <<"b","a","d">>,
      <<"g","o","o","d">>,
      <<"b","i","g">>,
      <<"o","p","e","n">>,
      <<"a","l","l">>,
      <<"a","n","y">>,
      <<"h","o","w">>,
      <<"w","h","y">>,
      <<"w","h","o">>,
      <<"w","h","a","t">>,
      <<"o","u","r">>,
      <<"y","o","u">>,
      <<"s","e","c","u","r","i","t","y">>,
      <<"c","y","b","e","r">>,
      <<"c","l","o","u","d">>,
      <<"d","a","t","a">>,
      <<"t","e","a","m">>,
      <<"l","e","a","d">>,
      <<"s","e","n","i","o","r">>,
      <<"j","u","n","i","o","r">>,
      <<"s","t","a","f","f">>,
      <<"c","h","i","e","f">>,
      <<"h","e","a","d">>,
      <<"v","i","c","e">>,
      <<"m","a","d">>,
      <<"p","r","o">>,
      <<"i","i","i">>,
      <<"i","n","c">>,
      <<"l","l","c">>,
      <<"l","t","d">> }

\* the characters of r"[-\u2013\u2014|]"; the en dash and the em dash are the tokens
\* "EN DASH" and "EM DASH"
TitleSeparators == {"-", "EN DASH", "EM DASH", "|"}

\* _clean_name_token: re.sub(r"[^a-z]", "", s.lower())
clean_name_token(s) == SelectSeq(Lower(s), IsLower)

\* re.split(r"[-\u2013\u2014|]", title, maxsplit=1): the number of parts
TitleParts(title) ==
    IF FirstOf(title, TitleSeparators) < Len(title) THEN 2 ELSE 1

\* re.sub(r"[^a-zA-Z\s]", "", parts[0]).strip()
IsNameChar(c) == IsAlpha(c) \/ c \in Whitespace

NamePart(title) ==
    Strip(SelectSeq(Upto(title, FirstOf(title, TitleSeparators)), IsNameChar))

\* len(name_part.split())
TokenCount(name_part) ==
    Cardinality({i \in 1..Len(name_part) :
                    /\ name_part[i] \notin Whitespace
                    /\ i = 1 \/ name_part[i - 1] \in Whitespace})

\* (tokens[0], tokens[-1]) of name_part.split(), name_part being stripped
FirstAndLast(name_part) ==
    << Upto(name_part, FirstOf(name_part, Whitespace)),
       From(name_part, LastOf(name_part, Whitespace)) >>

\* _extract_from_linkedin_title and _extract_from_rocketreach_title: the
\* pair, or None
extract_from_title(title) ==
    CHOOSE pair \in
        { IF TokenCount(name_part) >= 2 THEN FirstAndLast(name_part) ELSE None :
            name_part \in {NamePart(title)} } : TRUE

\* _extract_from_zoominfo_title
extract_from_zoominfo_title(title) ==
    IF \/ Contains(Lower(title), <<"o","v","e","r","v","i","e","w">>)
       \/ Contains(Lower(title), <<"c","o","m","p","a","n","y">>)
    THEN None
    ELSE extract_from_title(title)

\* the generic branch of extract_names: a separator and 2 to 4 tokens
extract_from_generic_title(title) ==
    CHOOSE pair \in
        { IF /\ TitleParts(title) >= 2
             /\ TokenCount(name_part) >= 2
             /\ TokenCount(name_part) <= 4
          THEN FirstAndLast(name_part)
          ELSE None :
            name_part \in {NamePart(title)} } : TRUE

\* the length of the longest run of letters s starts with
LetterRun(s) ==
    IF \A i \in 1..Len(s) : IsAlpha(s[i]) THEN Len(s)
    ELSE (CHOOSE i \in 1..Len(s) :
             ~IsAlpha(s[i]) /\ \A j \in 1..(i - 1) : IsAlpha(s[j])) - 1

LinkedinPrefix == <<"l","i","n","k","e","d","i","n",".","c","o","m","/","i","n","/">>

\* re.search(r"linkedin\.com/in/([a-zA-Z]+-[a-zA-Z]+-?)", url, re.I)
\* matches at 0-based offset i
LinkedinMatchAt(url, i) ==
    /\ OccursAt(Lower(url), LinkedinPrefix, i)
    /\ LET rest == From(url, i + Len(LinkedinPrefix))
           a == LetterRun(rest)
       IN /\ a >= 1
          /\ a < Len(rest)
          /\ rest[a + 1] = "-"
          /\ LetterRun(From(rest, a + 1)) >= 1

\* _extract_from_linkedin_url: group 1 without its trailing "-", split at
\* "-", both parts of two characters or more; or None
extract_from_linkedin_url(url) ==
    IF \E i \in 0..Len(url) : LinkedinMatchAt(url, i)
    THEN LET i == CHOOSE k \in 0..Len(url) :
                     LinkedinMatchAt(url, k)
                        /\ \A j \in 0..(k - 1) : ~LinkedinMatchAt(url, j)
             rest == From(url, i + Len(LinkedinPrefix))
             a == LetterRun(rest)
             second == From(rest, a + 1)
             b == LetterRun(second)
         IN IF a >= 2 /\ b >= 2
            THEN << Upto(rest, a), Upto(second, b) >>
            ELSE None
    ELSE None

\* str.replace(sub, "")
RECURSIVE Without(_, _)
Without(s, sub) ==
    IF s = <<>> THEN <<>>
    ELSE IF OccursAt(s, sub, 0) THEN Without(From(s, Len(sub)), sub)
    ELSE <<Head(s)>> \o Without(Tail(s), sub)

\* _source_from_url: urlparse(url).netloc.replace("www.", "")
source_from_url(url) == Without(UrlNetloc(url), <<"w","w","w",".">>)

\* _add_name with a test of the first token only against TITLE_NOISE
add_name_first_only(first, last, raw_title, src, acc) ==
    CHOOSE result \in
        { IF Len(f) < 2 \/ Len(l) < 2 THEN acc
          ELSE IF f \in TITLE_NOISE THEN acc
          ELSE IF <<f, l>> \in acc.seen THEN acc
          ELSE [seen |-> acc.seen \cup {<<f, l>>},
                out |-> Append(acc.out, <<f, l, raw_title, src>>)] :
            f \in {clean_name_token(first)}, l \in {clean_name_token(last)} } :
        TRUE

\* _add_name; acc holds the set seen and the list out
add_name(first, last, raw_title, src, acc) ==
    CHOOSE result \in
        { IF Len(f) < 2 \/ Len(l) < 2 THEN acc
          ELSE IF f \in TITLE_NOISE \/ l \in TITLE_NOISE THEN acc
          ELSE IF <<f, l>> \in acc.seen THEN acc
          ELSE [seen |-> acc.seen \cup {<<f, l>>},
                out |-> Append(acc.out, <<f, l, raw_title, src>>)] :
            f \in {clean_name_token(first)}, l \in {clean_name_token(last)} } :
        TRUE

\* the body of "for title, link in items": what the title (or, for LinkedIn,
\* the URL in its place) gives
Extracted(title, link) ==
    LET link_lower == Lower(link)
    IN IF Contains(link_lower, LinkedinPrefix)
       THEN IF extract_from_title(title) # None
            THEN extract_from_title(title)
            ELSE extract_from_linkedin_url(link)
       ELSE IF Contains(link_lower, <<"r","o","c","k","e","t","r","e","a","c","h",".","c","o">>)
       THEN extract_from_title(title)
       ELSE IF Contains(link_lower, <<"z","o","o","m","i","n","f","o",".","c","o","m">>)
       THEN extract_from_zoominfo_title(title)
       ELSE extract_from_generic_title(title)

\* the URL of a hit is not looked at a second time
UrlName_never(link) == None

\* the second strategy of a LinkedIn hit: the name in its URL
UrlName(link) ==
    IF Contains(Lower(link), LinkedinPrefix)
    THEN extract_from_linkedin_url(link)
    ELSE None

\* the two _add_name calls of one hit, with a set seen that starts empty at
\* every hit
AddHit_seen_per_hit(title, link, acc) ==
    CHOOSE result \in
        { LET first == IF extracted # None
                       THEN add_name(extracted[1], extracted[2], title, src,
                                     [seen |-> {}, out |-> acc.out])
                       ELSE [seen |-> {}, out |-> acc.out]
          IN IF url_name # None
             THEN add_name(url_name[1], url_name[2], title, src, first)
             ELSE first :
            extracted \in {Extracted(title, link)},
            url_name \in {UrlName(link)},
            src \in {source_from_url(link)} } : TRUE

\* the two _add_name calls of one hit
AddHit(title, link, acc) ==
    CHOOSE result \in
        { LET first == IF extracted # None
                       THEN add_name(extracted[1], extracted[2], title, src, acc)
                       ELSE acc
          IN IF url_name # None
             THEN add_name(url_name[1], url_name[2], title, src, first)
             ELSE first :
            extracted \in {Extracted(title, link)},
            url_name \in {UrlName(link)},
            src \in {source_from_url(link)} } : TRUE

RECURSIVE ExtractFrom(_, _)
ExtractFrom(hits, acc) ==
    IF hits = <<>> THEN acc
    ELSE CHOOSE result \in
            { ExtractFrom(Tail(hits), next) :
                next \in {AddHit(Head(hits)[1], Head(hits)[2], acc)} } : TRUE

\* extract_names: the list of (first, last, raw_title, source)
extract_names(hits) == ExtractFrom(hits, [seen |-> {}, out |-> <<>>]).out

\* ------------------------------------------------------------------------
\* Email generation: EMAIL_FORMATS and build_emails
\* ------------------------------------------------------------------------

\* str.title(): a letter that follows no letter is upper-cased, every other
\* letter is lower-cased
Title(s) ==
    [i \in 1..Len(s) |->
        IF i = 1 \/ ~IsAlpha(s[i - 1]) THEN UpperChar(s[i]) ELSE LowerChar(s[i])]

\* the convention raises IndexError: f[0] or l[0] of an empty string
FormatRaises(id, f, l) ==
    \/ id \in {3, 8} /\ f = <<>>
    \/ id = 9 /\ l = <<>>

\* EMAIL_FORMATS[id](f, l, d), id in 1..10
EMAIL_FORMATS(id, f, l, d) ==
    CASE id = 1 -> f \o <<".">> \o l \o <<"@">> \o d
      [] id = 2 -> f \o l \o <<"@">> \o d
      [] id = 3 -> <<f[1]>> \o l \o <<"@">> \o d
      [] id = 4 -> f \o <<"@">> \o d
      [] id = 5 -> l \o <<"@">> \o d
      [] id = 6 -> l \o <<".">> \o f \o <<"@">> \o d
      [] id = 7 -> f \o <<"_">> \o l \o <<"@">> \o d
      [] id = 8 -> <<f[1]>> \o <<".">> \o l \o <<"@">> \o d
      [] id = 9 -> f \o <<l[1]>> \o <<"@">> \o d
      [] id = 10 -> f \o <<".">> \o l \o <<"1">> \o <<"@">> \o d

\* EMAIL_FORMATS.get with convention 2 as the default
format_or_second(fmt_id) == IF fmt_id \in 1..10 THEN fmt_id ELSE 2

\* fn = EMAIL_FORMATS.get(fmt_id, EMAIL_FORMATS[1]): the key of the
\* convention used
format_or_default(fmt_id) == IF fmt_id \in 1..10 THEN fmt_id ELSE 1

\* the record build_emails appends
EmailRecord(cand, email) ==
    [name |-> Title(cand[1]) \o <<" ">> \o Title(cand[2]),
     email |-> email,
     first |-> cand[1],
     last |-> cand[2],
     raw_title |-> cand[3],
     source |-> cand[4]]

\* the body of the loop of build_emails without the test of seen
add_email_unseen(cand, d, fn, acc) ==
    IF cand[1] = <<>> \/ cand[2] = <<>> THEN acc
    ELSE IF FormatRaises(fn, cand[1], cand[2]) THEN acc
    ELSE CHOOSE result \in
            { [seen |-> acc.seen \cup {email},
               out |-> Append(acc.out, EmailRecord(cand, email))] :
                email \in {EMAIL_FORMATS(fn, cand[1], cand[2], d)} } : TRUE

\* the body of the loop of build_emails; acc holds the set seen and the
\* list out
add_email(cand, d, fn, acc) ==
    IF cand[1] = <<>> \/ cand[2] = <<>> THEN acc
    ELSE IF FormatRaises(fn, cand[1], cand[2]) THEN acc
    ELSE CHOOSE result \in
            { IF email \in acc.seen THEN acc
              ELSE [seen |-> acc.seen \cup {email},
                    out |-> Append(acc.out, EmailRecord(cand, email))] :
                email \in {EMAIL_FORMATS(fn, cand[1], cand[2], d)} } : TRUE

RECURSIVE BuildFrom(_, _, _, _)
BuildFrom(cands, d, fn, acc) ==
    IF cands = <<>> THEN acc
    ELSE CHOOSE result \in
            { BuildFrom(Tail(cands), d, fn, next) :
                next \in {add_email(Head(cands), d, fn, acc)} } : TRUE

\* build_emails: the list of records
build_emails(cands, d, id) ==
    BuildFrom(cands, d, format_or_default(id), [seen |-> {}, out |-> <<>>]).out

\* ------------------------------------------------------------------------
\* Query resolution: resolve_placeholders
\* ------------------------------------------------------------------------

\* the ValueError resolve_placeholders raises, where a string is expected
ValueError == <<"ValueError">>

\* "not value" is false: the value is neither None nor the empty string
Truthy(value) == value # None /\ value # <<>>

DomainPlaceholder == <<"{","d","o","m","a","i","n","}">>

CompanyPlaceholder == <<"{","c","o","m","p","a","n","y","}">>

\* str.replace(old, new), old not empty
RECURSIVE Replace(_, _, _)
Replace(s, old, new) ==
    IF s = <<>> THEN <<>>
    ELSE IF OccursAt(s, old, 0) THEN new \o Replace(From(s, Len(old)), old, new)
    ELSE <<Head(s)>> \o Replace(Tail(s), old, new)

\* resolve_placeholders that knows the placeholder {domain} only
resolve_placeholders_domain_only(text, d, c) ==
    IF Contains(text, DomainPlaceholder) /\ ~Truthy(d) THEN ValueError
    ELSE IF Truthy(d) THEN Replace(text, DomainPlaceholder, d)
    ELSE text

\* resolve_placeholders: the resolved text, or ValueError
resolve_placeholders(text, d, c) ==
    IF Contains(text, DomainPlaceholder) /\ ~Truthy(d) THEN ValueError
    ELSE IF Contains(text, CompanyPlaceholder) /\ ~Truthy(c) THEN ValueError
    ELSE CHOOSE out \in
            { IF Truthy(c) THEN Replace(with_domain, CompanyPlaceholder, c)
              ELSE with_domain :
                with_domain \in { IF Truthy(d)
                                  THEN Replace(text, DomainPlaceholder, d)
                                  ELSE text } } : TRUE

\* [resolve_placeholders(d, domain, company) for d in dorks]: the list, or
\* ValueError when one of the calls raises
resolve_all(templates, d, c) ==
    CHOOSE result \in
        { IF \E i \in 1..Len(each) : each[i] = ValueError
          THEN ValueError
          ELSE each :
            each \in { [i \in 1..Len(templates) |->
                          resolve_placeholders(templates[i], d, c)] } } : TRUE

\* the dorks of DorkPool before resolve_placeholders
DorkTemplates ==
    << <<"s","i","t","e",":","{","d","o","m","a","i","n","}"," ","f","i","l","e","t","y","p","e",":","p","d","f">>,
       <<"s","i","t","e",":","{","d","o","m","a","i","n","}"," ","f","i","l","e","t","y","p","e",":","d","o","c">>,
       <<"s","i","t","e",":","{","d","o","m","a","i","n","}"," ","f","i","l","e","t","y","p","e",":","x","l","s">>,
       <<"s","i","t","e",":","{","d","o","m","a","i","n","}"," ","f","i","l","e","t","y","p","e",":","p","p","t">> >>

AcmeDomain == <<"a","c","m","e",".","c","o","m">>

AcmeCompany == <<"A","c","m","e">>

\* ------------------------------------------------------------------------
\* State
\* ------------------------------------------------------------------------

VARIABLES
    cmd,              \* "contacts" or "files"
    source,           \* args.source
    api_key,          \* a credential is available
    dry_run,          \* args.dry_run
    company,          \* contacts: a company was supplied
    domain,           \* contacts: a domain was supplied
    queries,          \* the resolved queries / dorks
    pages,            \* args.pages
    pc,               \* where the command is
    exit_code,        \* the command's exit code, -1 while it runs
    use_serper,
    use_browser,
    abort,
    qi,               \* index of the query of the API loop
    p,                \* page of the running API adapter call
    results,          \* the list the running API adapter call accumulates
    all_items,        \* contacts: the merged raw hits
    all_links,        \* files: the merged links
    seen,             \* files: the URLs of all_links
    browser_partial,  \* the list the browser adapter appends to
    browser_dead,
    bq,               \* index of the query of the browser adapter
    pnum,             \* page number of the browser adapter
    api_calls,        \* history: calls of the search API made
    browser_launches, \* history: browsers launched
    output_written,   \* history: an output file was written
    serper_ran,       \* history: the API adapter was invoked
    browser_ran,      \* history: the browser adapter was invoked
    api_gathered,     \* history: what the pages fetched by the API held
    api_returned,     \* history: what the API adapter returned to the command
    prompts,          \* history: the phase and answer of each skip/quit prompt
    supplied,         \* history: rows and anchors supplied by the sources
    closed_raised,    \* history: a page operation raised a "closed" message
    urls,             \* run_downloads: the batch
    resume,           \* run_downloads: the resume flag
    disk,             \* the files of output_dir, each a name and its bytes
    idx,              \* run_downloads: index of the URL being processed
    success,
    failed,
    total_bytes,
    file_types,       \* the histogram, as pairs of extension and count
    dl_pc,            \* where run_downloads is
    run,              \* history: the number of runs started
    log,              \* history: what happened to each URL of this run
    prev_log,         \* history: the log of the previous run
    disk0,            \* history: the files when this run started
    items,            \* cmd_contacts: the hits given to extract_names
    names,            \* cmd_contacts: the candidates
    email_domain,     \* cmd_contacts: the domain given to build_emails
    fmt_id,           \* cmd_contacts: the format id
    emails,           \* cmd_contacts: the records build_emails returned
    builds,           \* history: the number of calls of build_emails
    input_file,       \* files: --input-file names no file, a missing file,
                      \* an empty file or a file of URLs
    dorks_file,       \* files: --dorks-file names no file, a missing file
                      \* or a file that was read
    dorks,            \* files: the lines of the dorks file and the -q values
    arg_domain,       \* files: the domain value, or None
    arg_company,      \* files: the company value, or None
    do_download,      \* files: --download
    resolved,         \* files: the resolved dorks, or ValueError
    link,             \* is_file_link: the URL
    file_like,        \* is_file_link: the value returned
    response,         \* run_downloads: a URL, the headers of its response
                      \* and its index in the batch
    final_name,       \* run_downloads: the sanitized filename, or None
    taken,            \* the names the destination holds
    out_name,         \* run_downloads: the name written to, or None
    fn_pc             \* where the processing of the hits, or the call, is

gatherVars ==
    << cmd, source, api_key, dry_run, company, domain, queries, pages, pc,
       exit_code, use_serper, use_browser, abort, qi, p, results, all_items,
       all_links, seen, browser_partial, browser_dead, bq, pnum, api_calls,
       browser_launches, output_written, serper_ran, browser_ran,
       api_gathered, api_returned, prompts, supplied, closed_raised >>

configVars == << cmd, source, api_key, dry_run, company, domain, queries, pages >>

historyVars == << api_calls, browser_launches, output_written, serper_ran,
                  browser_ran, api_gathered, api_returned, prompts, supplied,
                  closed_raised >>

downloadVars ==
    << urls, resume, disk, idx, success, failed, total_bytes, file_types,
       dl_pc, run, log, prev_log, disk0 >>

functionVars == << items, names, email_domain, fmt_id, emails, builds,
                   input_file, dorks_file, dorks, arg_domain, arg_company,
                   do_download, resolved, link, file_like, response,
                   final_name, taken, out_name, fn_pc >>

filesVars == << input_file, dorks_file, dorks, arg_domain, arg_company,
                do_download >>

contactVars == << items, names, email_domain, fmt_id, emails, builds >>

classifyVars == << link, file_like >>

namingVars == << response, final_name, taken, out_name >>

\* extract_names and build_emails are not being called
ContactsIdle ==
    /\ items = <<>>
    /\ names = <<>>
    /\ email_domain = <<>>
    /\ fmt_id = 1
    /\ emails = <<>>
    /\ builds = 0

\* the files command is not being run
FilesIdle ==
    /\ input_file = "none"
    /\ dorks_file = "none"
    /\ dorks = <<>>
    /\ arg_domain = None
    /\ arg_company = None
    /\ do_download = FALSE
    /\ resolved = <<>>

\* is_file_link is not being called
ClassifyIdle ==
    /\ link = <<>>
    /\ file_like = FALSE

\* no file is being named
NamingIdle ==
    /\ response = <<>>
    /\ final_name = None
    /\ taken = {}
    /\ out_name = None

vars == << gatherVars, downloadVars, functionVars >>

\* nothing is being processed
FunctionIdle ==
    /\ ContactsIdle
    /\ FilesIdle
    /\ ClassifyIdle
    /\ NamingIdle
    /\ fn_pc = "idle"

\* run_downloads has not been called
DownloadIdle ==
    /\ urls = <<>>
    /\ resume = FALSE
    /\ disk = {}
    /\ idx = 1
    /\ success = 0
    /\ failed = 0
    /\ total_bytes = 0
    /\ file_types = {}
    /\ dl_pc = "idle"
    /\ run = 0
    /\ log = <<>>
    /\ prev_log = <<>>
    /\ disk0 = {}

GatherStart ==
    /\ cmd \in {"contacts", "files"}
    /\ source \in {"auto", "serper", "browser"}
    /\ api_key \in BOOLEAN
    /\ dry_run \in BOOLEAN
    /\ company \in BOOLEAN
    /\ domain \in BOOLEAN
    /\ cmd = "files" => company /\ domain
    /\ queries \in IF cmd = "contacts"
                   THEN {CONTACT_QUERIES}
                   ELSE {SubSeq(DorkPool, 1, n) : n \in 1..MaxDorks}
    /\ pages \in 1..MaxPages
    /\ pc = "start"
    /\ exit_code = -1
    /\ use_serper = FALSE
    /\ use_browser = FALSE
    /\ abort = FALSE
    /\ qi = 1
    /\ p = 1
    /\ results = <<>>
    /\ all_items = <<>>
    /\ all_links = <<>>
    /\ seen = {}
    /\ browser_partial = <<>>
    /\ browser_dead = FALSE
    /\ bq = 1
    /\ pnum = 0
    /\ api_calls = 0
    /\ browser_launches = 0
    /\ output_written = FALSE
    /\ serper_ran = FALSE
    /\ browser_ran = FALSE
    /\ api_gathered = <<>>
    /\ api_returned = <<>>
    /\ prompts = <<>>
    /\ supplied = 0
    /\ closed_raised = FALSE

\* the files command is run with dorks that resolve, without --input-file
\* and without --download
DorkMode ==
    /\ input_file = "none"
    /\ dorks_file = "none"
    /\ dorks = IF cmd = "files" THEN SubSeq(DorkTemplates, 1, Len(queries)) ELSE <<>>
    /\ arg_domain = IF domain THEN AcmeDomain ELSE None
    /\ arg_company = IF company THEN AcmeCompany ELSE None
    /\ do_download = FALSE
    /\ resolved = <<>>

GatherInit ==
    /\ GatherStart
    /\ DownloadIdle
    /\ ContactsIdle
    /\ DorkMode
    /\ ClassifyIdle
    /\ NamingIdle
    /\ fn_pc = "idle"

\* ------------------------------------------------------------------------
\* cmd_contacts and cmd_files up to the gathering
\* ------------------------------------------------------------------------

\* return code, or sys.exit(code)
Finish(at, code) ==
    /\ pc' = at
    /\ exit_code' = code

\* cmd_contacts, lines 736-774
cmd_contacts ==
    /\ pc = "start"
    /\ cmd = "contacts"
    /\ IF ~company \/ ~domain
       THEN Finish("returned", 1) /\ UNCHANGED <<use_serper, use_browser>>
       ELSE IF resolve_source_exits(source, api_key)
       THEN Finish("exited", 1) /\ UNCHANGED <<use_serper, use_browser>>
       ELSE /\ use_serper' = resolve_source(source, api_key)[1]
            /\ use_browser' = resolve_source(source, api_key)[2]
            /\ IF dry_run
               THEN Finish("returned", 0)
               ELSE pc' = "api_loop" /\ UNCHANGED exit_code
    /\ UNCHANGED << downloadVars, functionVars, configVars, historyVars, abort, qi, p, results, all_items,
                    all_links, seen, browser_partial, browser_dead, bq, pnum >>

\* file_results of --input-file: the URLs of the file, line 915
InputLinks == << << FilePdf, "(input-file)" >> >>

\* cmd_files, lines 883-951: the source is resolved; with --input-file the
\* URLs are read and the search is skipped; otherwise the dorks are
\* collected and resolved, and --dry-run returns
cmd_files ==
    /\ pc = "start"
    /\ cmd = "files"
    /\ IF resolve_source_exits(source, api_key)
       THEN /\ Finish("exited", 1)
            /\ UNCHANGED << use_serper, use_browser, all_links, resolved >>
       ELSE /\ use_serper' = resolve_source(source, api_key)[1]
            /\ use_browser' = resolve_source(source, api_key)[2]
            /\ IF input_file # "none"
               THEN /\ UNCHANGED resolved
                    /\ IF input_file = "missing"
                       THEN Finish("returned", 1) /\ UNCHANGED all_links
                       ELSE IF input_file = "empty"
                       THEN Finish("returned", 0) /\ UNCHANGED all_links
                       ELSE /\ all_links' = InputLinks
                            /\ pc' = "process"
                            /\ UNCHANGED exit_code
               ELSE /\ UNCHANGED all_links
                    /\ IF dorks_file = "missing" \/ dorks = <<>>
                       THEN Finish("returned", 1) /\ UNCHANGED resolved
                       ELSE \E each \in {resolve_all(dorks, arg_domain, arg_company)} :
                               /\ resolved' = each
                               /\ IF each = ValueError
                                  THEN Finish("returned", 1)
                                  ELSE IF dry_run
                                  THEN Finish("returned", 0)
                                  ELSE pc' = "api_loop" /\ UNCHANGED exit_code
    /\ UNCHANGED << downloadVars, contactVars, filesVars, classifyVars, namingVars, fn_pc,
                    configVars, historyVars, abort, qi, p, results, all_items,
                    seen, browser_partial, browser_dead, bq, pnum >>

\* ------------------------------------------------------------------------
\* API gathering: cmd_contacts 776-796, cmd_files 953-972
\* ------------------------------------------------------------------------

\* the merged result, whichever command runs
Merged == IF cmd = "contacts" THEN all_items ELSE all_links

\* the head of "for qi, q in enumerate(queries, 1)" with its "if abort:
\* break", and, once the loop is over or not entered, "if use_browser and
\* not abort"
ApiLoop ==
    /\ pc = "api_loop"
    /\ IF use_serper /\ api_key /\ qi <= Len(queries) /\ ~abort
       THEN /\ pc' = "serper"
            /\ p' = 1
            /\ results' = <<>>
            /\ serper_ran' = TRUE
            /\ UNCHANGED <<browser_partial, browser_ran>>
       ELSE /\ IF use_browser /\ ~abort
               THEN /\ pc' = "browser_launch"
                    /\ browser_partial' = <<>>
                    /\ browser_ran' = TRUE
               ELSE /\ pc' = "process"
                    /\ UNCHANGED <<browser_partial, browser_ran>>
            /\ UNCHANGED <<p, results, serper_ran>>
    /\ UNCHANGED << downloadVars, functionVars, configVars, closed_raised, exit_code, use_serper, use_browser, abort, qi,
                    all_items, all_links, seen, browser_dead, bq, pnum,
                    api_calls, browser_launches, output_written, api_gathered,
                    api_returned, prompts, supplied >>

\* what one more page adds to the list of the running adapter call
PageResults(organic) ==
    IF cmd = "contacts"
    THEN results \o organic
    ELSE AddOrganicLinks(organic, queries[qi], results)

\* the merge of an adapter call's return value into the command's result
ApiMerge(data) ==
    IF cmd = "contacts"
    THEN /\ all_items' = all_items \o OrganicItems(data)
         /\ api_returned' = api_returned \o OrganicItems(data)
         /\ UNCHANGED <<all_links, seen>>
    ELSE LET m == MergeLinks(data, [all_links |-> all_links, seen |-> seen])
         IN /\ all_links' = m.all_links
            /\ seen' = m.seen
            /\ api_returned' = api_returned \o data
            /\ UNCHANGED all_items

\* the page loop breaking on a failed call only, not on an empty page
PageStops_on_failure_only(data) == ~data.data

\* "if not data: break" and "if not organic: break"
PageStops(data) == ~data.data \/ data.organic = <<>>

\* one iteration of "for p in range(1, min(max_pages, SERPER_MAX_PAGES) + 1)"
\* of serper_fetch_organic / serper_fetch_file_links; when it is the last,
\* the adapter returns and the command merges what it returned
SerperPage ==
    /\ pc = "serper"
    /\ \E status \in Statuses :
       \E organic \in SeqUpTo(IF cmd = "contacts" THEN ContactRows ELSE FileRows,
                              Min(PageSize, MaxHits - supplied)) :
          LET data == serper_search(status, organic)
              stop == PageStops(data)
              new == IF stop THEN results ELSE PageResults(data.organic)
              last == stop \/ p = Min(pages, SERPER_MAX_PAGES)
          IN /\ status # 200 => organic = <<>>
             /\ api_calls' = api_calls + 1
             /\ supplied' = supplied + Len(organic)
             /\ api_gathered' = api_gathered \o
                    (IF cmd = "contacts"
                     THEN OrganicItems(data.organic)
                     ELSE SubSeq(new, Len(results) + 1, Len(new)))
             /\ IF last
                THEN /\ ApiMerge(new)
                     /\ results' = <<>>
                     /\ p' = 1
                     /\ qi' = qi + 1
                     /\ pc' = "api_loop"
                ELSE /\ results' = new
                     /\ p' = p + 1
                     /\ UNCHANGED << all_items, all_links, seen, api_returned,
                                     qi, pc >>
    /\ UNCHANGED << downloadVars, functionVars, configVars, closed_raised, exit_code, use_serper, use_browser, abort,
                    browser_partial, browser_dead, bq, pnum, browser_launches,
                    output_written, serper_ran, browser_ran, prompts >>

\* KeyboardInterrupt while the adapter call waits for the search API: it
\* leaves serper_fetch_* without a return value and reaches the command's
\* "except KeyboardInterrupt"
SerperInterrupt ==
    /\ pc = "serper"
    /\ pc' = "api_prompt"
    /\ results' = <<>>
    /\ p' = 1
    /\ UNCHANGED << downloadVars, functionVars, configVars, historyVars, exit_code, use_serper,
                    use_browser, abort, qi, all_items, all_links, seen,
                    browser_partial, browser_dead, bq, pnum >>

\* the API prompt with its answer ignored: abort is never set
ApiAsk_never_aborts ==
    /\ pc = "api_prompt"
    /\ \E answer \in Answers :
          /\ abort' = FALSE
          /\ prompts' = Append(prompts, <<"api", answer>>)
    /\ qi' = qi + 1
    /\ pc' = "api_loop"
    /\ UNCHANGED << downloadVars, functionVars, configVars, closed_raised, exit_code, use_serper, use_browser, p, results,
                    all_items, all_links, seen, browser_partial, browser_dead,
                    bq, pnum, api_calls, browser_launches, output_written,
                    serper_ran, browser_ran, api_gathered, api_returned,
                    supplied >>

\* "if not _ask_continue(): abort = True", then the next iteration
ApiAsk ==
    /\ pc = "api_prompt"
    /\ \E answer \in Answers :
          /\ abort' = ~ask_continue(answer)
          /\ prompts' = Append(prompts, <<"api", answer>>)
    /\ qi' = qi + 1
    /\ pc' = "api_loop"
    /\ UNCHANGED << downloadVars, functionVars, configVars, closed_raised, exit_code, use_serper, use_browser, p, results,
                    all_items, all_links, seen, browser_partial, browser_dead,
                    bq, pnum, api_calls, browser_launches, output_written,
                    serper_ran, browser_ran, api_gathered, api_returned,
                    supplied >>

\* ------------------------------------------------------------------------
\* Browser gathering: cmd_contacts 798-808, cmd_files 974-987
\* ------------------------------------------------------------------------

\* "all_items.extend(browser_partial)", or the files command's merge loop
BrowserMerge(partial) ==
    IF cmd = "contacts"
    THEN /\ all_items' = all_items \o partial
         /\ UNCHANGED <<all_links, seen>>
    ELSE LET m == MergeLinks(partial, [all_links |-> all_links, seen |-> seen])
         IN /\ all_links' = m.all_links
            /\ seen' = m.seen
            /\ UNCHANGED all_items

\* async_playwright(), chromium.launch, new_context, new_page: an exception
\* there is caught by the adapter's outer "except Exception" and the adapter
\* returns its (empty) results
BrowserLaunch ==
    /\ pc = "browser_launch"
    /\ browser_launches' = browser_launches + 1
    /\ \E launched \in BOOLEAN :
          IF launched
          THEN /\ pc' = "browser"
               /\ bq' = 1
               /\ pnum' = 0
               /\ UNCHANGED <<all_items, all_links, seen>>
          ELSE /\ BrowserMerge(browser_partial)
               /\ pc' = "process"
               /\ UNCHANGED <<bq, pnum>>
    /\ UNCHANGED << downloadVars, functionVars, configVars, closed_raised, exit_code, use_serper, use_browser, abort, qi,
                    p, results, browser_partial, browser_dead, api_calls,
                    output_written, serper_ran, browser_ran, api_gathered,
                    api_returned, prompts, supplied >>

\* how the body of "for pnum in range(max_pages)" ends: a next page exists,
\* none exists, or a page operation raised an exception
PageEnds == {"next", "last", "raise"}

\* the messages of the exceptions a page operation raises
ErrorMessages ==
    { <<"b","r","o","w","s","e","r"," ","h","a","s"," ","b","e","e","n"," ","c","l","o","s","e","d">>,
      <<"T","a","r","g","e","t"," ","c","l","o","s","e","d">>,
      <<"c","o","n","n","e","c","t","i","o","n"," ","c","l","o","s","e","d">>,
      <<"T","i","m","e","o","u","t"," ","e","x","c","e","e","d","e","d">> }

ClosedPatterns ==
    { <<"h","a","s"," ","b","e","e","n"," ","c","l","o","s","e","d">>,
      <<"t","a","r","g","e","t"," ","c","l","o","s","e","d">>,
      <<"c","o","n","n","e","c","t","i","o","n"," ","c","l","o","s","e","d">> }

\* _is_browser_closed without its third pattern
is_browser_closed_two_patterns(message) ==
    \E pattern \in ClosedPatterns \ {<<"c","o","n","n","e","c","t","i","o","n"," ","c","l","o","s","e","d">>} :
        Contains(Lower(message), pattern)

\* _is_browser_closed: the lowercased message holds one of the patterns
is_browser_closed(message) ==
    \E pattern \in ClosedPatterns : Contains(Lower(message), pattern)

\* what one page adds to the list the browser adapter appends to
ScrapeResults(anchors) ==
    IF cmd = "contacts"
    THEN AddTitles(anchors, browser_partial)
    ELSE AddAnchors(anchors, queries[bq], browser_partial)

\* one iteration of "for q in queries: for pnum in range(max_pages)" of
\* playwright_fetch_titles / playwright_fetch_file_links; when it is the
\* last, the adapter returns and the command merges browser_partial
BrowserPage ==
    /\ pc = "browser"
    /\ \E end \in PageEnds :
       \E message \in IF end = "raise" THEN ErrorMessages ELSE {None} :
       \E anchors \in SeqUpTo(IF cmd = "contacts" THEN ContactAnchors
                                                  ELSE FileAnchors,
                              Min(PageSize, MaxHits - supplied)) :
          LET new == ScrapeResults(anchors)
              dead == end = "raise" /\ is_browser_closed(message)
              samequery == /\ end = "next" \/ (end = "raise" /\ ~dead)
                           /\ pnum + 1 < pages
              over == dead \/ (~samequery /\ bq = Len(queries))
          IN /\ supplied' = supplied + Len(anchors)
             /\ closed_raised' =
                    (closed_raised \/
                        (end = "raise" /\ \E pattern \in ClosedPatterns :
                                              Contains(message, pattern)))
             /\ browser_partial' = new
             /\ browser_dead' = dead
             /\ IF over
                THEN /\ BrowserMerge(new)
                     /\ pc' = "process"
                     /\ UNCHANGED <<bq, pnum>>
                ELSE /\ IF samequery
                        THEN pnum' = pnum + 1 /\ UNCHANGED bq
                        ELSE pnum' = 0 /\ bq' = bq + 1
                     /\ UNCHANGED <<pc, all_items, all_links, seen>>
    /\ UNCHANGED << downloadVars, functionVars, configVars, exit_code, use_serper, use_browser, abort, qi,
                    p, results, api_calls, browser_launches, output_written,
                    serper_ran, browser_ran, api_gathered, api_returned,
                    prompts >>

\* KeyboardInterrupt while the browser adapter runs: asyncio.run cancels the
\* adapter and raises KeyboardInterrupt in the command, which holds the list
\* the adapter was appending to
BrowserInterrupt ==
    /\ pc \in {"browser_launch", "browser"}
    /\ pc' = "browser_prompt"
    /\ UNCHANGED << downloadVars, functionVars, configVars, historyVars, exit_code, use_serper,
                    use_browser, abort, qi, p, results, all_items, all_links,
                    seen, browser_partial, browser_dead, bq, pnum >>

\* the browser prompt with the merge of browser_partial skipped on "quit"
BrowserAsk_discards ==
    /\ pc = "browser_prompt"
    /\ \E answer \in Answers :
          /\ abort' = (abort \/ ~ask_continue(answer))
          /\ prompts' = Append(prompts, <<"browser", answer>>)
          /\ IF ask_continue(answer)
             THEN BrowserMerge(browser_partial)
             ELSE UNCHANGED <<all_items, all_links, seen>>
    /\ pc' = "process"
    /\ UNCHANGED << downloadVars, functionVars, configVars, closed_raised, exit_code, use_serper, use_browser, qi, p,
                    results, browser_partial, browser_dead, bq, pnum,
                    api_calls, browser_launches, output_written, serper_ran,
                    browser_ran, api_gathered, api_returned, supplied >>

\* "if not _ask_continue(): abort = True", then the merge of browser_partial
BrowserAsk ==
    /\ pc = "browser_prompt"
    /\ \E answer \in Answers :
          /\ abort' = (abort \/ ~ask_continue(answer))
          /\ prompts' = Append(prompts, <<"browser", answer>>)
    /\ BrowserMerge(browser_partial)
    /\ pc' = "process"
    /\ UNCHANGED << downloadVars, functionVars, configVars, closed_raised, exit_code, use_serper, use_browser, qi, p,
                    results, browser_partial, browser_dead, bq, pnum,
                    api_calls, browser_launches, output_written, serper_ran,
                    browser_ran, api_gathered, api_returned, supplied >>

\* ------------------------------------------------------------------------
\* Extraction and output: cmd_contacts 810-876, cmd_files 989-1055
\* ------------------------------------------------------------------------

\* the command writes its output files unless nothing was found or --stdout
\* was given, and ends with code 0; the files command that has written
\* them with --download goes on to run_downloads (lines 1026-1030)
Output ==
    /\ pc = "process"
    /\ \E wrote \in BOOLEAN :
          /\ wrote => Merged # <<>>
          /\ output_written' = wrote
          /\ IF wrote /\ cmd = "files" /\ do_download
             THEN pc' = "download" /\ UNCHANGED exit_code
             ELSE Finish("returned", 0)
    /\ UNCHANGED << downloadVars, functionVars, configVars, closed_raised, use_serper, use_browser, abort, qi, p, results,
                    all_items, all_links, seen, browser_partial, browser_dead,
                    bq, pnum, api_calls, browser_launches, serper_ran,
                    browser_ran, api_gathered, api_returned, prompts,
                    supplied >>

GatherNext ==
    \/ cmd_contacts
    \/ cmd_files
    \/ ApiLoop
    \/ SerperPage
    \/ SerperInterrupt
    \/ ApiAsk
    \/ BrowserLaunch
    \/ BrowserPage
    \/ BrowserInterrupt
    \/ BrowserAsk
    \/ Output

Spec == GatherInit /\ [][GatherNext]_vars

\* ------------------------------------------------------------------------
\* Download: run_downloads
\* ------------------------------------------------------------------------

UrlReport == <<"h","t","t","p",":","/","/","a","/","r",".","p","d","f">>
UrlScript == <<"h","t","t","p",":","/","/","b","/","x",".","p","h","p","?","i","d","=","1">>

\* the URLs a batch is made of
DownloadUrls == { UrlReport, UrlScript }

\* what a server answers with: the Content-Disposition and Content-Type
\* headers and the chunks resp.iter_content yields
Responses ==
    { [cd |-> <<>>,
       ct |-> <<"a","p","p","l","i","c","a","t","i","o","n","/","p","d","f">>,
       chunks |-> << <<1>> >>],
      [cd |-> <<"a","t","t","a","c","h","m","e","n","t",";"," ","f","i","l","e","n","a","m","e","*","=","U","T","F","-","8","'","'","r","%","2","E","p","d","f">>,
       ct |-> <<"T","e","x","t","/","P","l","a","i","n",";"," ","c","h","a","r","s","e","t","=","x">>,
       chunks |-> << <<>>, <<2>> >>] }

NameR == <<"r",".","p","d","f">>
NameR1 == <<"r","_","1",".","p","d","f">>

\* the files the destination holds before the first run
InitialDisks ==
    { {},
      { [name |-> NameR, data |-> <<9>>] },
      { [name |-> NameR, data |-> <<9>>], [name |-> NameR1, data |-> <<8, 8>>] } }

\* os.path.exists answering False for every name
Names_none(files) == {}

\* the names of the files of a directory: os.path.exists
Names(files) == {f.name : f \in files}

\* the bytes of the file with this name
Data(files, name) == (CHOOSE f \in files : f.name = name).data

\* open(out_path, "wb") and the f.write calls: the file is created or
\* truncated and then holds the bytes written
Written(files, path, bytes) ==
    {f \in files : f.name # path} \cup {[name |-> path, data |-> bytes]}

\* the bytes the first n chunks write: "if chunk: f.write(chunk)"
RECURSIVE ChunkBytes(_, _)
ChunkBytes(chunks, n) ==
    IF n = 0 THEN <<>>
    ELSE ChunkBytes(chunks, n - 1) \o chunks[n]

\* file_types[ext] = 1: the count is set, not incremented
Counted_once(types, ext) ==
    {t \in types : t[1] # ext} \cup {<<ext, 1>>}

\* file_types[ext] = file_types.get(ext, 0) + 1
Counted(types, ext) ==
    IF \E t \in types : t[1] = ext
    THEN LET old == CHOOSE t \in types : t[1] = ext
         IN (types \ {old}) \cup {<<ext, old[2] + 1>>}
    ELSE types \cup {<<ext, 1>>}

\* what can go wrong with one URL: the fetch raises (or FlareSolverr
\* fails, or raise_for_status raises), reading the headers raises, open
\* raises, or the body stream or a write raises
Faults == {"none", "fetch", "headers", "open", "stream"}

\* an "except requests.RequestException" in place of "except Exception"
caught_requests_only(fault) == fault = "fetch"

\* "except Exception" catches whatever the try block raises
caught(fault) == TRUE

DownloadStart ==
    /\ urls \in UNION {[1..n -> DownloadUrls] : n \in 1..MaxBatch}
    /\ disk \in InitialDisks
    /\ resume = FALSE
    /\ idx = 1
    /\ success = 0
    /\ failed = 0
    /\ total_bytes = 0
    /\ file_types = {}
    /\ dl_pc = "call"
    /\ run = 0
    /\ log = <<>>
    /\ prev_log = <<>>
    /\ disk0 = disk

\* the files command has written its links and is about to download them
GatherDone ==
    /\ cmd = "files"
    /\ source = "auto"
    /\ api_key = FALSE
    /\ dry_run = FALSE
    /\ company = TRUE
    /\ domain = TRUE
    /\ queries = SubSeq(DorkPool, 1, 1)
    /\ pages = 1
    /\ pc = "download"
    /\ exit_code = -1
    /\ use_serper = FALSE
    /\ use_browser = TRUE
    /\ abort = FALSE
    /\ qi = 1
    /\ p = 1
    /\ results = <<>>
    /\ all_items = <<>>
    /\ all_links = <<>>
    /\ seen = {}
    /\ browser_partial = <<>>
    /\ browser_dead = FALSE
    /\ bq = 1
    /\ pnum = 0
    /\ api_calls = 0
    /\ browser_launches = 0
    /\ output_written = FALSE
    /\ serper_ran = FALSE
    /\ browser_ran = FALSE
    /\ api_gathered = <<>>
    /\ api_returned = <<>>
    /\ prompts = <<>>
    /\ supplied = 0
    /\ closed_raised = FALSE

DownloadInit == GatherDone /\ DownloadStart /\ FunctionIdle

\* run_downloads, lines 590-601: a run over the batch begins; a batch that
\* has completed without a failure can be run again, with resume on or off
run_downloads ==
    /\ dl_pc \in {"call", "done"}
    /\ run < MaxRuns
    /\ dl_pc = "done" => failed = 0
    /\ resume' \in BOOLEAN
    /\ run' = run + 1
    /\ idx' = 1
    /\ success' = 0
    /\ failed' = 0
    /\ total_bytes' = 0
    /\ file_types' = {}
    /\ prev_log' = log
    /\ log' = <<>>
    /\ disk0' = disk
    /\ dl_pc' = "loop"
    /\ UNCHANGED << gatherVars, functionVars, urls, disk >>

\* the entry of log for one URL: the final sanitized name (None if none was
\* reached), the path written to (None if none was), the fault, the outcome
Entry(name, path, fault, outcome) ==
    [name |-> name, path |-> path, fault |-> fault, outcome |-> outcome]

\* one iteration of "for idx, url in enumerate(urls, 1)", lines 602-661
DownloadOne ==
    /\ dl_pc = "loop"
    /\ \E resp \in Responses :
       \E filename \in {download_filename(urls[idx], resp.cd, resp.ct, idx)} :
       \E path \in {free_path(filename, Names(disk))} :
       \E fault \in Faults : \E written \in 0..Len(resp.chunks) :
          LET existing == Names(disk)
              ext == Lower(SplitextExt(path))
              bytes == ChunkBytes(resp.chunks, written)
              skip == fault \notin {"fetch", "headers"}
                          /\ skips(resume, filename, existing)
              saved == fault = "none" /\ ~skip
          IN /\ fault = "stream" <=> written < Len(resp.chunks)
             /\ skip => fault = "none"
             /\ disk' = IF fault \in {"none", "stream"} /\ ~skip
                        THEN Written(disk, path, bytes)
                        ELSE disk
             /\ log' = Append(log,
                    IF fault \in {"fetch", "headers"}
                    THEN Entry(None, None, fault, "failed")
                    ELSE IF skip
                    THEN Entry(filename, None, fault, "skipped")
                    ELSE IF fault = "open"
                    THEN Entry(filename, None, fault, "failed")
                    ELSE IF fault = "stream"
                    THEN Entry(filename, path, fault, "failed")
                    ELSE Entry(filename, path, fault, "saved"))
             /\ IF fault # "none" /\ ~caught(fault)
                THEN /\ dl_pc' = "raised"
                     /\ UNCHANGED << idx, success, failed, total_bytes,
                                     file_types >>
                ELSE /\ success' = IF fault = "none" THEN success + 1
                                   ELSE success
                     /\ failed' = IF fault = "none" THEN failed ELSE failed + 1
                     /\ total_bytes' = IF saved THEN total_bytes + Len(bytes)
                                       ELSE total_bytes
                     /\ file_types' = IF saved /\ ext # <<>>
                                      THEN Counted(file_types, ext)
                                      ELSE file_types
                     /\ idx' = idx + 1
                     /\ dl_pc' = IF idx = Len(urls) THEN "done" ELSE "loop"
    /\ UNCHANGED << gatherVars, functionVars, urls, resume, run, prev_log, disk0 >>

DownloadNext ==
    \/ run_downloads
    \/ DownloadOne

SpecDownload == DownloadInit /\ [][DownloadNext]_vars

\* a URL whose path ends in a name that sanitize_filename leaves without an
\* extension: ".env" is stripped to "env"
UrlDotfile == <<"h","t","t","p",":","/","/","a","/",".","e","n","v">>

\* the URLs of the batches whose statistics are looked at
StatisticsUrls == { UrlReport, UrlDotfile }

\* run_downloads is about to be called on a batch of these URLs, with the
\* destination empty or holding r.pdf
StatisticsInit ==
    /\ GatherDone
    /\ FunctionIdle
    /\ urls \in UNION {[1..n -> StatisticsUrls] : n \in 1..MaxBatch}
    /\ disk \in { d \in InitialDisks : Cardinality(d) <= 1 }
    /\ resume = FALSE
    /\ idx = 1
    /\ success = 0
    /\ failed = 0
    /\ total_bytes = 0
    /\ file_types = {}
    /\ dl_pc = "call"
    /\ run = 0
    /\ log = <<>>
    /\ prev_log = <<>>
    /\ disk0 = disk

SpecStatistics == StatisticsInit /\ [][DownloadNext]_vars

\* ------------------------------------------------------------------------
\* cmd_contacts, lines 810-811: from the merged hits to the email records
\* ------------------------------------------------------------------------

\* the hit "Jane Doe - Security Lead at Acme | LinkedIn" on the profile
\* https://www.linkedin.com/in/jane-doe-4f2a
JaneHit ==
    << <<"J","a","n","e"," ","D","o","e"," ","-"," ","S","e","c","u","r","i","t","y"," ","L","e","a","d"," ","a","t"," ","A","c","m","e"," ","|"," ","L","i","n","k","e","d","I","n">>,
       <<"h","t","t","p","s",":","/","/","w","w","w",".","l","i","n","k","e","d","i","n",".","c","o","m","/","i","n","/","j","a","n","e","-","d","o","e","-","4","f","2","a">> >>

\* hits (title, link) as the two sources report them
ItemPool ==
    { << <<"A","n"," ","B","o"," ","-"," ","C","T","O"," ","|"," ","L","i","n","k","e","d","I","n">>,
         <<"h","t","t","p","s",":","/","/","w","w","w",".","l","i","n","k","e","d","i","n",".","c","o","m","/","i","n","/","a","n","-","b","o","-","1","a","2","b">> >>,
      << <<"L","i","n","k","e","d","I","n">>,
         <<"h","t","t","p","s",":","/","/","u","k",".","l","i","n","k","e","d","i","n",".","c","o","m","/","i","n","/","C","y","-","D","i">> >>,
      << <<"A","n"," ","B","o"," ","-"," ","A","c","m","e"," ","|"," ","R","o","c","k","e","t","R","e","a","c","h">>,
         <<"h","t","t","p","s",":","/","/","r","o","c","k","e","t","r","e","a","c","h",".","c","o","/","a","n","-","b","o">> >>,
      << <<"T","h","e"," ","T","e","a","m"," ","-"," ","A","b","o","u","t">>,
         <<"h","t","t","p","s",":","/","/","a","c","m","e",".","c","o","m","/","t","e","a","m">> >>,
      << <<"A","c","m","e"," ","D","a","t","a"," ","-"," ","B","l","o","g">>,
         <<"h","t","t","p","s",":","/","/","w","w","w",".","a","c","m","e",".","c","o","m","/","b","l","o","g">> >>,
      << <<"A","c","m","e"," ","C","o","m","p","a","n","y"," ","O","v","e","r","v","i","e","w">>,
         <<"h","t","t","p","s",":","/","/","w","w","w",".","z","o","o","m","i","n","f","o",".","c","o","m","/","c","/","a","c","m","e">> >>,
      << <<"E","d"," ","O","'","K","a","y"," ","EN DASH"," ","V","P">>,
         <<"h","t","t","p","s",":","/","/","w","w","w",".","z","o","o","m","i","n","f","o",".","c","o","m","/","p","/","e","d">> >>,
      << <<"X"," ","L","i"," ","-"," ","D","e","v">>,
         <<"h","t","t","p","s",":","/","/","a","c","m","e",".","c","o","m","/","x">> >>,
      << <<"D","r"," ","E","v","a"," ","F","o","x"," ","|"," ","A","c","m","e">>,
         <<"h","t","t","p","s",":","/","/","a","c","m","e",".","c","o","m","/","e","v","a">> >>,
      << <<"E","v","a"," ","F","o","x"," ","-"," ","C","E","O">>,
         <<"h","t","t","p","s",":","/","/","w","w","w",".","l","i","n","k","e","d","i","n",".","c","o","m","/","i","n","/","a","n","-","b","o">> >>,
      JaneHit }

\* candidates (first, last, raw_title, source) given to build_emails
NamePool ==
    { << <<"j","o","h","n">>, <<"s","m","i","t","h">>,
         <<"J","o","h","n"," ","S","m","i","t","h"," ","-"," ","C","T","O">>,
         <<"l","i","n","k","e","d","i","n",".","c","o","m">> >>,
      << <<"j","a","n","e">>, <<"s","m","i","t","h">>,
         <<"J","a","n","e"," ","S","m","i","t","h"," ","|"," ","A","c","m","e">>,
         <<"a","c","m","e",".","c","o","m">> >>,
      << <<>>, <<"s","m","i","t","h">>,
         <<"S","m","i","t","h">>,
         <<"a","c","m","e",".","c","o","m">> >>,
      << <<"j","o","h","n">>, <<>>,
         <<"J","o","h","n">>,
         <<"a","c","m","e",".","c","o","m">> >>,
      << <<"A","l">>, <<"B","o">>,
         <<"A","l"," ","B","o"," ","-"," ","V","P">>,
         <<"r","o","c","k","e","t","r","e","a","c","h",".","c","o">> >>,
      << <<"j","o","h","n","s">>, <<"m","i","t","h">>,
         <<"J","o","h","n","s"," ","M","i","t","h"," ","-"," ","C","F","O">>,
         <<"z","o","o","m","i","n","f","o",".","c","o","m">> >> }

\* values of --domain
Domains == { <<"a","c","m","e",".","c","o","m">>,
             <<"A","C","M","E",".","c","o","m">> }

\* format ids: the ten conventions and two ids outside them
FormatIds == 0..11

\* the format ids the whole pipeline is run with
PipelineFormats == {1, 3}

\* the command has gathered its hits
ContactsGathered ==
    /\ cmd = "contacts"
    /\ source = "auto"
    /\ api_key = FALSE
    /\ dry_run = FALSE
    /\ company = TRUE
    /\ domain = TRUE
    /\ queries = CONTACT_QUERIES
    /\ pages = 1
    /\ pc = "process"
    /\ exit_code = -1
    /\ use_serper = FALSE
    /\ use_browser = TRUE
    /\ abort = FALSE
    /\ qi = 1
    /\ p = 1
    /\ results = <<>>
    /\ all_items = <<>>
    /\ all_links = <<>>
    /\ seen = {}
    /\ browser_partial = <<>>
    /\ browser_dead = FALSE
    /\ bq = 1
    /\ pnum = 0
    /\ api_calls = 0
    /\ browser_launches = 0
    /\ output_written = FALSE
    /\ serper_ran = FALSE
    /\ browser_ran = FALSE
    /\ api_gathered = <<>>
    /\ api_returned = <<>>
    /\ prompts = <<>>
    /\ supplied = 0
    /\ closed_raised = FALSE

\* the inputs: a list of hits for extract_names, or a list of candidates
\* for build_emails called on its own
ContactsStart ==
    /\ email_domain \in Domains
    /\ emails = <<>>
    /\ builds = 0
    /\ \/ /\ fn_pc = "items"
          /\ fmt_id \in PipelineFormats
          /\ items \in SeqUpTo(ItemPool, MaxItems)
          /\ names = <<>>
       \/ /\ fn_pc = "names"
          /\ fmt_id \in FormatIds
          /\ items = <<>>
          /\ names \in SeqUpTo(NamePool, MaxNames)

ContactsInit ==
    ContactsGathered /\ DownloadIdle /\ FilesIdle /\ ClassifyIdle /\ NamingIdle
        /\ ContactsStart

\* line 810: names = extract_names(all_items)
ExtractNames ==
    /\ fn_pc = "items"
    /\ names' = extract_names(items)
    /\ fn_pc' = "names"
    /\ UNCHANGED << gatherVars, downloadVars, filesVars, resolved,
                    classifyVars, namingVars, items, email_domain, fmt_id, emails, builds >>

\* line 811: emails = build_emails(names, domain, fmt_id); the call is
\* repeated on the same inputs
BuildEmails ==
    /\ fn_pc \in {"names", "emails"}
    /\ builds < MaxBuilds
    /\ emails' = build_emails(names, email_domain, fmt_id)
    /\ builds' = builds + 1
    /\ fn_pc' = "emails"
    /\ UNCHANGED << gatherVars, downloadVars, filesVars, resolved,
                    classifyVars, namingVars, items, names, email_domain, fmt_id >>

ContactsNext ==
    \/ ExtractNames
    \/ BuildEmails

SpecContacts == ContactsInit /\ [][ContactsNext]_vars

\* ------------------------------------------------------------------------
\* is_file_link called on its own
\* ------------------------------------------------------------------------

UrlHosts ==
    { <<"h","t","t","p","s",":","/","/","a","c","m","e",".","c","o","m">>,
      <<"H","T","T","P",":","/","/","A",".","i","o">>,
      <<>> }

UrlPaths ==
    { <<>>,
      <<"/">>,
      <<"/","v","i","e","w">>,
      <<"/","a",".","p","d","f">>,
      <<"/","a",".","b","/">>,
      <<"/","x",".","t","o","o","l","o","n","g">>,
      <<"/","x",".","a">>,
      <<"/","r",".","P","D","F">>,
      <<"/","d","/","f",".","a","b","1","2","c">>,
      <<"/","f",".","a","_","b">>,
      <<"/","v","1",".","2","/","g","e","t">> }

UrlTails ==
    { <<>>,
      <<"?","f","i","l","e","=","r","e","p","o","r","t",".","p","d","f">>,
      <<"#","x">>,
      <<"?","a","=","b",".","p","d","f","#","c">> }

\* the URLs is_file_link is given: scheme and host, path, query or fragment
UrlPool == { h \o pth \o t : h \in UrlHosts, pth \in UrlPaths, t \in UrlTails }

\* the command is not running
NotRunning ==
    /\ cmd = "files"
    /\ source = "auto"
    /\ api_key = FALSE
    /\ dry_run = FALSE
    /\ company = TRUE
    /\ domain = TRUE
    /\ queries = SubSeq(DorkPool, 1, 1)
    /\ pages = 1
    /\ pc = "start"
    /\ exit_code = -1
    /\ use_serper = FALSE
    /\ use_browser = FALSE
    /\ abort = FALSE
    /\ qi = 1
    /\ p = 1
    /\ results = <<>>
    /\ all_items = <<>>
    /\ all_links = <<>>
    /\ seen = {}
    /\ browser_partial = <<>>
    /\ browser_dead = FALSE
    /\ bq = 1
    /\ pnum = 0
    /\ api_calls = 0
    /\ browser_launches = 0
    /\ output_written = FALSE
    /\ serper_ran = FALSE
    /\ browser_ran = FALSE
    /\ api_gathered = <<>>
    /\ api_returned = <<>>
    /\ prompts = <<>>
    /\ supplied = 0
    /\ closed_raised = FALSE

ClassifyInit ==
    /\ NotRunning
    /\ DownloadIdle
    /\ ContactsIdle
    /\ FilesIdle
    /\ NamingIdle
    /\ link \in UrlPool
    /\ file_like = FALSE
    /\ fn_pc = "link"

\* is_file_link(url), lines 144-153
Classify ==
    /\ fn_pc = "link"
    /\ file_like' = is_file_link(link)
    /\ fn_pc' = "classified"
    /\ UNCHANGED << gatherVars, downloadVars, contactVars, filesVars, resolved,
                    namingVars, link >>

ClassifyNext == Classify

SpecClassify == ClassifyInit /\ [][ClassifyNext]_vars

\* ------------------------------------------------------------------------
\* The files command from its start to the gathering, and with --input-file
\* to its end
\* ------------------------------------------------------------------------

\* dork templates: -q values and lines of a dorks file
TemplatePool ==
    { <<"s","i","t","e",":","{","d","o","m","a","i","n","}"," ","f","i","l","e","t","y","p","e",":","p","d","f">>,
      <<"\"","{","c","o","m","p","a","n","y","}","\""," ","f","i","l","e","t","y","p","e",":","p","d","f">>,
      <<"{","d","o","m","a","i","n","}"," ","{","c","o","m","p","a","n","y","}"," ","{","d","o","m","a","i","n","}">>,
      <<"i","n","u","r","l",":","a","d","m","i","n">>,
      <<"{","D","o","m","a","i","n","}"," ","{","c","o","m","p","a","n","y">>,
      <<"{","d","o","m","a","i","n","}","{","d","o","m","a","i","n","}">> }

\* the values of --domain and of --company: absent, empty, given
DomainValues == { None, <<>>, AcmeDomain }

CompanyValues == { None, <<>>, AcmeCompany }

\* the command has not started
FilesStart ==
    /\ cmd = "files"
    /\ source \in {"auto", "serper"}
    /\ api_key \in BOOLEAN
    /\ dry_run \in BOOLEAN
    /\ company = Truthy(arg_company)
    /\ domain = Truthy(arg_domain)
    /\ queries = <<>>
    /\ pages = 1
    /\ pc = "start"
    /\ exit_code = -1
    /\ use_serper = FALSE
    /\ use_browser = FALSE
    /\ abort = FALSE
    /\ qi = 1
    /\ p = 1
    /\ results = <<>>
    /\ all_items = <<>>
    /\ all_links = <<>>
    /\ seen = {}
    /\ browser_partial = <<>>
    /\ browser_dead = FALSE
    /\ bq = 1
    /\ pnum = 0
    /\ api_calls = 0
    /\ browser_launches = 0
    /\ output_written = FALSE
    /\ serper_ran = FALSE
    /\ browser_ran = FALSE
    /\ api_gathered = <<>>
    /\ api_returned = <<>>
    /\ prompts = <<>>
    /\ supplied = 0
    /\ closed_raised = FALSE

\* the input modes: dorks (-q values, a dorks file), or a file of URLs
FilesInputs ==
    /\ resolved = <<>>
    /\ \/ /\ input_file = "none"
          /\ dorks_file \in {"none", "missing", "read"}
          /\ dorks \in SeqUpTo(TemplatePool, MaxDorks)
          /\ arg_domain \in DomainValues
          /\ arg_company \in CompanyValues
          /\ do_download = FALSE
       \/ /\ input_file \in {"missing", "empty", "urls"}
          /\ dorks_file = "none"
          /\ dorks = <<>>
          /\ arg_domain \in {None, AcmeDomain}
          /\ arg_company = None
          /\ do_download \in BOOLEAN

FilesInit ==
    /\ FilesInputs
    /\ FilesStart
    /\ DownloadIdle
    /\ ContactsIdle
    /\ ClassifyIdle
    /\ NamingIdle
    /\ fn_pc = "idle"

FilesNext ==
    \/ cmd_files
    \/ Output

SpecFiles == FilesInit /\ [][FilesNext]_vars

\* ------------------------------------------------------------------------
\* run_downloads, lines 612-645: from a response to the name written to
\* ------------------------------------------------------------------------

\* the number of files of the destination that can have the name of a
\* download or one of its suffixed forms
MaxTaken == 2

\* names as a URL path or a Content-Disposition header spells them
RawNames ==
    { <<"r",".","p","d","f">>,
      <<"c","o","n",".","t","x","t">>,
      <<"C","O","N",".">>,
      <<"L","p","t","1",".","l","o","g">>,
      <<".","e","n","v">>,
      <<".",".">>,
      <<"a","%","2","F","b",".","t","x","t">>,
      <<".",".","%","5","C","x",".","t","x","t">>,
      <<"x","%","7","F",".","p","d","f">>,
      <<"x","%","0","1",".","p","d","f">>,
      <<"q","%","3","A","%","2","A",".","z","i","p">>,
      <<"a","|","b","?",".","t","x","t">>,
      <<"x",".","p","h","p">>,
      <<>>,
      <<"a","u","x">>,
      <<"%","2","0",".","%","2","0">>,
      <<"n","u","l",".","t","a","r",".","g","z">> }

NameUrls == { <<"h","t","t","p",":","/","/","a","/","d","/">> \o n : n \in RawNames }

\* no header, the filename*=UTF-8'' form and the quoted filename= form
NameHeaders ==
    {<<>>}
        \cup { <<"a","t","t","a","c","h","m","e","n","t",";"," ","f","i","l","e","n","a","m","e","*","=","U","T","F","-","8","'","'">> \o n :
                 n \in RawNames }
        \cup { <<"i","n","l","i","n","e",";"," ","f","i","l","e","n","a","m","e","=","\"">> \o n \o <<"\"">> :
                 n \in RawNames }

NameContentTypes ==
    { <<>>,
      <<"a","p","p","l","i","c","a","t","i","o","n","/","p","d","f">>,
      <<"t","e","x","t","/","h","t","m","l",";"," ","c","h","a","r","s","e","t","=","u","t","f","-","8">> }

\* the destination after k downloads that resolved to this name, none of
\* them skipped
RECURSIVE Holding(_, _)
Holding(name, k) ==
    IF k = 0 THEN {}
    ELSE CHOOSE after \in
            { before \cup {free_path(name, before)} :
                before \in {Holding(name, k - 1)} } : TRUE

NamingInit ==
    /\ NotRunning
    /\ DownloadIdle
    /\ ContactsIdle
    /\ FilesIdle
    /\ ClassifyIdle
    /\ response \in [url : NameUrls, cd : NameHeaders, ct : NameContentTypes,
                     index : 1..MaxBatch]
    /\ final_name = None
    /\ taken = {}
    /\ out_name = None
    /\ fn_pc = "response"

\* lines 612-631: filename = sanitize_filename(filename)
NameFile ==
    /\ fn_pc = "response"
    /\ final_name' = download_filename(response.url, response.cd, response.ct,
                                       response.index)
    /\ fn_pc' = "named"
    /\ UNCHANGED << gatherVars, downloadVars, contactVars, filesVars, resolved,
                    classifyVars, response, taken, out_name >>

\* lines 638-645: the collision suffix, in a destination that holds the
\* files of up to MaxTaken earlier downloads of the name, and open()
PlaceFile ==
    /\ fn_pc = "named"
    /\ \E k \in 0..MaxTaken :
       \E holding \in {Holding(final_name, k)} :
          /\ taken' = holding
          /\ out_name' = free_path(final_name, holding)
    /\ fn_pc' = "placed"
    /\ UNCHANGED << gatherVars, downloadVars, contactVars, filesVars, resolved,
                    classifyVars, response, final_name >>

NamingNext ==
    \/ NameFile
    \/ PlaceFile

SpecNaming == NamingInit /\ [][NamingNext]_vars

TypeOK == pc \in {"start", "api_loop", "serper", "api_prompt", "browser_launch",
                  "browser", "browser_prompt", "process", "returned", "exited",
                  "download"}

\* ------------------------------------------------------------------------
\* Properties of the gathering
\* ------------------------------------------------------------------------

\* a is a subsequence of b: the elements of a occur in b, in order
RECURSIVE IsSubseq(_, _)
IsSubseq(a, b) ==
    IF a = <<>> THEN TRUE
    ELSE IF b = <<>> THEN FALSE
    ELSE IF Head(a) = Head(b) THEN IsSubseq(Tail(a), Tail(b))
    ELSE IsSubseq(a, Tail(b))

\* the positions of pairs that hold the first pair with their URL
FirstPositions(pairs) ==
    {k \in 1..Len(pairs) : \A j \in 1..(k - 1) : pairs[j][1] # pairs[k][1]}

\* pairs without the pairs whose URL occurred earlier
RECURSIVE FirstOccurrences(_)
FirstOccurrences(pairs) ==
    IF pairs = <<>> THEN <<>>
    ELSE LET n == Len(pairs)
             front == FirstOccurrences(SubSeq(pairs, 1, n - 1))
         IN IF n \in FirstPositions(pairs) THEN Append(front, pairs[n])
            ELSE front

\* the gathering is over and its result goes to extraction and output
Gathered == pc \in {"process", "returned"} /\ ~dry_run /\ exit_code # 1

\* the answers that make _ask_continue stop the gathering
Quit(i) == ~ask_continue(prompts[i][2])

\* the number of merged raw hits with this URL
HitsWith(url) == Cardinality({k \in 1..Len(all_items) : all_items[k][2] = url})

\* C1: in the contacts path, a URL that both the API adapter and the browser
\* adapter yielded occurs exactly once in the merged raw hits, with the
\* title of its first (API) occurrence.
C1_ContactsUrlOnce ==
    (cmd = "contacts" /\ Gathered) =>
        \A i \in 1..Len(api_returned) : \A j \in 1..Len(browser_partial) :
            api_returned[i][2] = browser_partial[j][2] =>
                /\ HitsWith(api_returned[i][2]) = 1
                /\ \E k \in 1..Len(all_items) :
                      /\ all_items[k][2] = api_returned[i][2]
                      /\ \E f \in 1..i :
                            /\ api_returned[f][2] = api_returned[i][2]
                            /\ \A e \in 1..(f - 1) :
                                  api_returned[e][2] # api_returned[i][2]
                            /\ all_items[k][1] = api_returned[f][1]

\* what the adapters have handed to the files command's merge loops so far
FilesReturned ==
    api_returned \o (IF pc \in {"process", "returned"} THEN browser_partial
                     ELSE <<>>)

\* C2: in the files path the merged link list holds every URL string at most
\* once, in first-seen order with the API-found links before the
\* browser-only links, each with the query of its first occurrence.
C2_FilesMergeFirstSeen ==
    cmd = "files" =>
        /\ \A i, j \in 1..Len(all_links) :
              all_links[i][1] = all_links[j][1] => i = j
        /\ all_links = FirstOccurrences(FilesReturned)
        /\ \A i, j \in 1..Len(all_links) :
              (i < j /\ all_links[j][1] \in Urls(api_returned))
                  => all_links[i][1] \in Urls(api_returned)
        /\ seen = Urls(all_links)

\* the case of C2: a link both sources found under different queries, kept
\* once with the API's query, followed by a link only the browser found
C2_Witness ==
    /\ cmd = "files"
    /\ pc = "process"
    /\ Len(all_links) = 2
    /\ all_links[2][1] \notin Urls(api_returned)
    /\ \E j \in 1..Len(browser_partial) :
          /\ browser_partial[j][1] = all_links[1][1]
          /\ browser_partial[j][2] # all_links[1][2]

\* C3 as stated: API-only never runs the browser adapter, browser-only never
\* runs the API adapter, auto always runs the browser adapter and runs the
\* API adapter exactly when a credential is available.
C3_SourceSelectionAsStated ==
    (Gathered /\ pc = "returned") =>
        /\ source = "serper" => ~browser_ran /\ browser_launches = 0
        /\ source = "browser" => ~serper_ran /\ api_calls = 0
        /\ source = "auto" => browser_ran /\ (serper_ran <=> api_key)

\* the operator stopped the gathering at a prompt of the API phase
QuitDuringApi == \E i \in 1..Len(prompts) : prompts[i][1] = "api" /\ Quit(i)

\* C3 amended: as C3, but under auto the browser adapter runs exactly when
\* the operator did not stop the gathering during the API phase.
C3_SourceSelection ==
    /\ source = "serper" => ~browser_ran /\ browser_launches = 0
    /\ source = "browser" => ~serper_ran /\ api_calls = 0
    /\ (Gathered /\ source = "auto") =>
          /\ serper_ran <=> api_key
          /\ browser_ran <=> ~QuitDuringApi

\* the case of C3: an auto run with a credential that ran both adapters
C3_Witness ==
    /\ pc = "returned"
    /\ source = "auto"
    /\ api_key
    /\ api_calls > 0
    /\ browser_launches > 0

\* C4: forced API-only without a credential, either command ends with exit
\* code 1 before any search-API call, browser launch or output-file write.
C4_NoCredentialExits ==
    (source = "serper" /\ ~api_key) =>
        /\ pc \in {"start", "exited", "returned"}
        /\ pc # "start" => exit_code = 1
        /\ api_calls = 0
        /\ browser_launches = 0
        /\ ~serper_ran
        /\ ~browser_ran
        /\ ~output_written

\* the case of C4: _resolve_source has ended the process
C4_Witness ==
    /\ source = "serper"
    /\ ~api_key
    /\ pc = "exited"
    /\ exit_code = 1

\* C8: after an interrupt during API gathering, what the pages already
\* fetched held (for the interrupted query and all earlier ones) is in the
\* merged result the run continues with.
C8_ApiInterruptKeepsPages ==
    Gathered =>
        IF cmd = "contacts"
        THEN IsSubseq(api_gathered, all_items)
        ELSE Urls(api_gathered) \subseteq Urls(all_links)

\* the browser gathering was interrupted
BrowserInterrupted == \E i \in 1..Len(prompts) : prompts[i][1] = "browser"

\* C9 as stated: after an interrupt during browser gathering every pair the
\* browser adapter had appended is, in order, in the merged result.
C9_BrowserPartialAsStated ==
    (Gathered /\ BrowserInterrupted) => IsSubseq(browser_partial, Merged)

\* the pairs of the browser adapter whose URL the API adapter did not return
RECURSIVE BrowserOnly(_)
BrowserOnly(pairs) ==
    IF pairs = <<>> THEN <<>>
    ELSE IF Head(pairs)[1] \in Urls(api_returned) THEN BrowserOnly(Tail(pairs))
    ELSE <<Head(pairs)>> \o BrowserOnly(Tail(pairs))

\* C9 amended: in the contacts path every pair is kept, in order; in the
\* files path every URL the browser adapter had appended is in the merged
\* list, and the pairs whose URL the API adapter had not returned are in it
\* in order, whichever answer the operator gives.
C9_BrowserPartialKept ==
    (Gathered /\ BrowserInterrupted) =>
        IF cmd = "contacts"
        THEN all_items = api_returned \o browser_partial
        ELSE /\ Urls(browser_partial) \subseteq Urls(all_links)
             /\ IsSubseq(BrowserOnly(browser_partial), all_links)

\* the case of C9: the operator quit after the browser had appended a pair
C9_Witness ==
    /\ Gathered
    /\ browser_partial # <<>>
    /\ prompts # <<>>
    /\ prompts[Len(prompts)] = <<"browser", "q">>

\* the last prompt was ended by a second interrupt or by end of input
SecondInterrupt ==
    /\ prompts # <<>>
    /\ prompts[Len(prompts)][2] \in {"KeyboardInterrupt", "EOFError"}

\* C10: a second interrupt or end of input at the skip/quit prompt resolves
\* to "stop gathering": the command goes on without raising, starts no
\* further query or adapter, and keeps and processes what was gathered.
C10_SecondInterruptStops ==
    SecondInterrupt =>
        /\ abort
        /\ pc \in {"api_loop", "process", "returned"}
        /\ exit_code \in {-1, 0}
        /\ IF prompts[Len(prompts)][1] = "api"
           THEN /\ ~browser_ran
                /\ browser_launches = 0
                /\ IF cmd = "contacts"
                   THEN all_items = api_returned
                   ELSE all_links = FirstOccurrences(api_returned)
           ELSE IF cmd = "contacts"
                THEN all_items = api_returned \o browser_partial
                ELSE all_links = FirstOccurrences(api_returned \o browser_partial)

\* the case of C10: the prompt of the API phase was interrupted after hits
\* of an earlier query had been merged, and the command has returned
C10_Witness ==
    /\ SecondInterrupt
    /\ prompts[Len(prompts)] = <<"api", "KeyboardInterrupt">>
    /\ api_returned # <<>>
    /\ pc = "returned"

\* the API adapter is at work: in a query, or at the prompt after an
\* interrupt of one
ApiPhase == pc \in {"serper", "api_prompt"}

\* the browser adapter is at work
BrowserPhase == pc \in {"browser_launch", "browser", "browser_prompt"}

Outcomes(outcomes) ==
    Cardinality({i \in 1..Len(log) : log[i].outcome \in outcomes})

\* C5: whichever URLs of a batch raise in the fetch, the header parsing or
\* the write, the loop goes on to every other URL, each URL is counted once,
\* as a failure exactly when it raised and as a success otherwise, and at
\* return success + failed is the size of the batch.
C5_PerFileIsolation ==
    /\ dl_pc \in {"call", "loop", "done"}
    /\ Len(log) = idx - 1
    /\ dl_pc = "loop" => idx <= Len(urls)
    /\ \A i \in 1..Len(log) : log[i].outcome = "failed" <=> log[i].fault # "none"
    /\ failed = Outcomes({"failed"})
    /\ success = Outcomes({"saved", "skipped"})
    /\ dl_pc = "done" => /\ Len(log) = Len(urls)
                         /\ success + failed = Len(urls)

\* the case of C5: a URL of the batch failed, a later one was saved, and the
\* run has returned
C5_Witness ==
    /\ dl_pc = "done"
    /\ \E i, j \in 1..Len(log) :
          /\ i < j
          /\ log[i].outcome = "failed"
          /\ log[j].outcome = "saved"

\* the run before this one was over the same batch and had no failure
CompletedBefore ==
    /\ run >= 2
    /\ Len(prev_log) = Len(urls)
    /\ \A i \in 1..Len(prev_log) : prev_log[i].outcome # "failed"

\* a run with resume enabled over a completed batch has returned
Rerun == dl_pc = "done" /\ resume /\ CompletedBefore

SameNames ==
    /\ Len(log) = Len(prev_log)
    /\ \A i \in 1..Len(log) : log[i].name # None /\ log[i].name = prev_log[i].name

WithSuffix(name, k) ==
    SplitextRoot(name) \o <<"_">> \o Digits(k) \o SplitextExt(name)

\* C7: with resume disabled no step changes or removes a file of the
\* destination; a body is written to the final name when that is free and
\* otherwise to <base>_<k><ext> for the smallest k >= 1 that is free; so two
\* URLs of a run are never written to the same file and every file present
\* before the run keeps its content.
C7_NeverOverwrites ==
    /\ [][(dl_pc = "loop" /\ ~resume)
            => /\ disk \subseteq disk'
               /\ (Len(log') = Len(log) + 1 /\ log'[Len(log')].path # None)
                    => LET e == log'[Len(log')]
                       IN /\ e.path \notin Names(disk)
                          /\ e.path \in Names(disk')
                          /\ IF e.name \notin Names(disk)
                             THEN e.path = e.name
                             ELSE \E k \in 1..Cardinality(disk) :
                                    /\ e.path = WithSuffix(e.name, k)
                                    /\ \A j \in 1..(k - 1) :
                                          WithSuffix(e.name, j) \in Names(disk)]_vars
    /\ [](~resume => /\ disk0 \subseteq disk
                     /\ \A i, j \in 1..Len(log) :
                           (i < j /\ log[i].path # None /\ log[j].path # None)
                              => log[i].path # log[j].path)

\* the case of C7: with resume disabled two URLs resolved to one name that
\* the destination already held, and both were saved, to different files
C7_Witness ==
    /\ dl_pc = "done"
    /\ ~resume
    /\ \E i, j \in 1..Len(log) :
          /\ i < j
          /\ log[i].outcome = "saved"
          /\ log[j].outcome = "saved"
          /\ log[i].name = log[j].name
          /\ log[i].name \in Names(disk0)
          /\ log[i].path # log[j].path
          /\ log[j].path = WithSuffix(log[j].name, 2)

\* the URLs of this run whose body was saved and whose final file has this
\* lower-cased extension
SavedAs(ext) ==
    {i \in 1..Len(log) : /\ log[i].outcome = "saved"
                         /\ Lower(SplitextExt(log[i].path)) = ext}

\* the sum of the counts of the extension histogram
RECURSIVE HistogramSum(_)
HistogramSum(types) ==
    IF types = {} THEN 0
    ELSE LET t == CHOOSE t \in types : TRUE
         IN t[2] + HistogramSum(types \ {t})

\* the sum of the sizes of the files these URLs of the run were saved to
RECURSIVE SavedSize(_)
SavedSize(saved) ==
    IF saved = {} THEN 0
    ELSE LET i == CHOOSE i \in saved : TRUE
         IN Len(Data(disk, log[i].path)) + SavedSize(saved \ {i})

\* C21 as stated: every URL counted as a success adds one to the extension
\* histogram, so that at return the counts of the histogram sum to the
\* number of successes.
C21_HistogramSumsToSuccess ==
    dl_pc = "done" => HistogramSum(file_types) = success

\* C21 amended: every URL whose body was saved adds the size of the file
\* written to total_bytes and, when the final name has an extension, one to
\* the histogram under that extension in lower case; a URL skipped by resume
\* is a success that adds to neither; so at return the counts of the
\* histogram sum to the number of saved files that have an extension, which
\* is at most the number of successes.
C21_Statistics ==
    dl_pc \in {"loop", "done"} =>
       \E saved \in { {i \in 1..Len(log) : log[i].outcome = "saved"} } :
       \E exts \in { { Lower(SplitextExt(log[i].path)) : i \in saved } } :
          /\ total_bytes = SavedSize(saved)
          /\ \A t \in file_types :
                /\ t[1] \in exts \ {<<>>}
                /\ t[2] = Cardinality(SavedAs(t[1]))
          /\ \A e \in exts \ {<<>>} : \E t \in file_types : t[1] = e
          /\ HistogramSum(file_types)
                = Cardinality(saved) - Cardinality(SavedAs(<<>>))
          /\ success = Cardinality(saved) + Outcomes({"skipped"})
          /\ HistogramSum(file_types) <= success

\* the case of C21: a run has returned in which one URL was skipped by
\* resume and one was saved to a file without an extension, so that the
\* histogram holds fewer than the successes
C21_Witness ==
    /\ dl_pc = "done"
    /\ Outcomes({"skipped"}) >= 1
    /\ SavedAs(<<>>) # {}
    /\ total_bytes > 0
    /\ HistogramSum(file_types) < success

\* the final names the URLs of this run resolved to
FinalNames == {log[i].name : i \in 1..Len(log)} \ {None}

\* C24: with resume enabled no step changes a file of the destination or
\* creates a file under another name than the final name of its URL; of two
\* URLs of a run that resolve to one final name, once the body of the first
\* has been written the second writes nothing and, being answered, is
\* counted as a success; and the files a run adds are at most as many as the
\* distinct final names.
C24_ResumeOneFilePerName ==
    /\ [][(dl_pc = "loop" /\ resume /\ Len(log') = Len(log) + 1)
            => LET e == log'[Len(log')]
               IN /\ disk \subseteq disk'
                  /\ \A f \in disk' \ disk :
                        /\ f.name = e.name
                        /\ f.name = e.path
                        /\ \A g \in disk : g.name # f.name
                  /\ e.outcome = "skipped"
                        => /\ disk' = disk
                           /\ success' = success + 1
                           /\ failed' = failed]_vars
    /\ []((resume /\ dl_pc \in {"loop", "done"}) =>
            /\ disk0 \subseteq disk
            /\ \A i \in 1..Len(log) :
                  log[i].path # None => log[i].path = log[i].name
            /\ \A i, j \in 1..Len(log) :
                  (i < j /\ log[i].path # None /\ log[j].name = log[i].name)
                     => /\ log[j].path = None
                        /\ log[j].outcome = "skipped"
            /\ Cardinality(disk \ disk0) <= Cardinality(FinalNames))

\* the case of C24: with resume enabled two different URLs of a batch
\* resolved to one final name that the destination did not hold; the first
\* was saved, the second skipped, and the run returned two successes and
\* one new file
C24_Witness ==
    /\ dl_pc = "done"
    /\ resume
    /\ Len(urls) = 2
    /\ urls[1] # urls[2]
    /\ log[1].name = log[2].name
    /\ log[1].name \notin {f.name : f \in disk0}
    /\ log[1].outcome = "saved"
    /\ log[2].outcome = "skipped"
    /\ success = 2
    /\ Cardinality(disk \ disk0) = 1

LastPage == Min(pages, 100)

\* an interrupt arrived during the API gathering
ApiInterrupted ==
    pc = "api_prompt" \/ \E i \in 1..Len(prompts) : prompts[i][1] = "api"

\* the hits of the running adapter call as the command merges them
Kept(hits) == IF cmd = "contacts" THEN OrganicItems(hits) ELSE hits

NamesExtracted == fn_pc \in {"names", "emails"} /\ items # <<>>

\* a token as the contract wants it: lowercase letters only, two or more,
\* outside the noise vocabulary
CleanToken(t) ==
    /\ Len(t) >= 2
    /\ \A j \in 1..Len(t) : IsLower(t[j])
    /\ t \notin TITLE_NOISE

\* C13: every candidate extract_names emits, for any list of hits, has a
\* first and a last token made of lowercase letters only, each of two
\* characters or more, and neither is in TITLE_NOISE; ("the", "team") is
\* never emitted.
C13_CandidateTokens ==
    NamesExtracted =>
        \A i \in 1..Len(names) :
            /\ CleanToken(names[i][1])
            /\ CleanToken(names[i][2])
            /\ << names[i][1], names[i][2] >> # << <<"t","h","e">>, <<"t","e","a","m">> >>

\* a hit whose title gives a pair with a last token of TITLE_NOISE and a
\* first token outside it was processed, and another hit gave a candidate
C13_Witness ==
    /\ fn_pc = "names"
    /\ names # <<>>
    /\ \E i \in 1..Len(items) :
          LET pair == Extracted(items[i][1], items[i][2])
          IN /\ pair # None
             /\ clean_name_token(pair[1]) \notin TITLE_NOISE
             /\ Len(clean_name_token(pair[1])) >= 2
             /\ clean_name_token(pair[2]) \in TITLE_NOISE

\* the keys (first, last) a hit gives, by its title and by its URL
HitKeys(hit) ==
    { << clean_name_token(pair[1]), clean_name_token(pair[2]) >> :
        pair \in ({Extracted(hit[1], hit[2])} \cup {UrlName(hit[2])}) \ {None} }

\* the hit gives the key
Produces(hit, key) == key \in HitKeys(hit)

\* C14: the list extract_names returns never holds two candidates with the
\* same (first, last) key, however many hits or strategies give the key, and
\* the candidate kept carries the title and the source host name of the
\* first hit that gave it.
C14_IdentityDedup ==
    (fn_pc = "names" /\ items # <<>>) =>
        /\ \A i, j \in 1..Len(names) :
              (names[i][1] = names[j][1] /\ names[i][2] = names[j][2]) => i = j
        /\ \E produced \in
                { UNION { {<< k, key >> : key \in HitKeys(items[k])} :
                            k \in 1..Len(items) } } :
              \A i \in 1..Len(names) :
                 \E k \in 1..Len(items) :
                    /\ << k, << names[i][1], names[i][2] >> >> \in produced
                    /\ \A j \in 1..(k - 1) :
                          << j, << names[i][1], names[i][2] >> >> \notin produced
                    /\ names[i][3] = items[k][1]
                    /\ names[i][4] = source_from_url(items[k][2])

\* two hits of different sources and titles gave the same key, and one
\* candidate was returned
C14_Witness ==
    /\ fn_pc = "names"
    /\ Len(items) = 2
    /\ Len(names) = 1
    /\ Produces(items[1], << names[1][1], names[1][2] >>)
    /\ Produces(items[2], << names[1][1], names[1][2] >>)
    /\ items[1][1] # items[2][1]
    /\ source_from_url(items[1][2]) # source_from_url(items[2][2])

\* the documented conventions: the local part of the address
Convention(id, first, last) ==
    CASE id = 1 -> first \o <<".">> \o last
      [] id = 2 -> first \o last
      [] id = 3 -> SubSeq(first, 1, 1) \o last
      [] id = 4 -> first
      [] id = 5 -> last
      [] id = 6 -> last \o <<".">> \o first
      [] id = 7 -> first \o <<"_">> \o last
      [] id = 8 -> SubSeq(first, 1, 1) \o <<".">> \o last
      [] id = 9 -> first \o SubSeq(last, 1, 1)
      [] id = 10 -> first \o <<".">> \o last \o <<"1">>

\* the address the documented convention gives, an id outside 1..10
\* counting as 1
Documented(id, first, last, d) ==
    Convention(IF id \in 1..10 THEN id ELSE 1, first, last) \o <<"@">> \o d

\* the addresses of the records
Addresses == {emails[i].email : i \in 1..Len(emails)}

JohnSmith == \E i \in 1..Len(names) :
                /\ names[i][1] = <<"j","o","h","n">>
                /\ names[i][2] = <<"s","m","i","t","h">>

C16_AllLowercase ==
    fn_pc = "emails" =>
        \A i \in 1..Len(emails) : emails[i].email = Lower(emails[i].email)

\* candidate i has a first and a last name
Eligible(i) == names[i][1] # <<>> /\ names[i][2] # <<>>

\* the address candidate i generates under the chosen convention
AddressOf(i) == Documented(fmt_id, names[i][1], names[i][2], email_domain)

\* the candidates no earlier candidate generates the address of
Winners ==
    {i \in 1..Len(names) :
        /\ Eligible(i)
        /\ \A j \in 1..(i - 1) : Eligible(j) => AddressOf(j) # AddressOf(i)}

\* C17: the records build_emails returns have pairwise distinct email
\* strings; when several candidates generate the same address under the
\* chosen convention (John Smith and Jane Smith under format 3) exactly one
\* record is emitted, that of the first such candidate in input order; a
\* candidate with an empty first or last name gives no record.
C17_EmailDedup ==
    fn_pc = "emails" =>
        /\ \A i, j \in 1..Len(emails) :
              emails[i].email = emails[j].email => i = j
        /\ Len(emails) = Cardinality(Winners)
        /\ \A k \in 1..Len(emails) :
              /\ emails[k].first # <<>>
              /\ emails[k].last # <<>>
              /\ \E i \in Winners :
                    /\ emails[k].email = AddressOf(i)
                    /\ emails[k].first = names[i][1]
                    /\ emails[k].last = names[i][2]
                    /\ emails[k].raw_title = names[i][3]
                    /\ emails[k].source = names[i][4]
                    /\ k = Cardinality({w \in Winners : w <= i})

\* a candidate without a first name, then two candidates of different
\* first names that generate one address: one record, the first one's
C17_Witness ==
    /\ fn_pc = "emails"
    /\ Len(names) = 3
    /\ ~Eligible(1)
    /\ Eligible(2)
    /\ Eligible(3)
    /\ names[2][1] # names[3][1]
    /\ AddressOf(2) = AddressOf(3)
    /\ Len(emails) = 1
    /\ emails[1].first = names[2][1]

\* the hit is on a profile URL
OnProfile(hit) == Contains(Lower(hit[2]), LinkedinPrefix)

\* the (first, last) key of a pair a strategy gave, or None when the
\* strategy gave nothing or the pair does not pass _add_name
KeyOf(pair) ==
    IF pair = None THEN None
    ELSE CHOOSE key \in
            { IF /\ Len(f) >= 2 /\ Len(l) >= 2
                 /\ f \notin TITLE_NOISE /\ l \notin TITLE_NOISE
              THEN <<f, l>>
              ELSE None :
                f \in {clean_name_token(pair[1])},
                l \in {clean_name_token(pair[2])} } : TRUE

\* the candidate of the title strategy and the candidate of the URL-slug
\* strategy of a profile hit
TitleKey(hit) == KeyOf(extract_from_title(hit[1]))
SlugKey(hit) == KeyOf(extract_from_linkedin_url(hit[2]))

\* the (first, last) keys of the list returned, in order
NameKeys == [i \in 1..Len(names) |-> << names[i][1], names[i][2] >>]

Jane == << <<"j","a","n","e">>, <<"d","o","e">> >>

\* C22: for a hit on a profile URL the URL-slug strategy is tried whether or
\* not the title strategy gave a name: each of the two candidates is in the
\* list returned; when they differ and no earlier hit gave either, the hit
\* contributes both, the title's directly before the slug's; when they agree
\* the list holds the name once; and a batch that holds the hit "Jane Doe -
\* Security Lead at Acme | LinkedIn" at .../in/jane-doe-4f2a always yields
\* (jane, doe).
C22_BothStrategies ==
    (fn_pc = "names" /\ items # <<>>) =>
       \E keys \in {NameKeys} :
       \E cands \in { [k \in 1..Len(items) |->
                         IF OnProfile(items[k])
                         THEN << TitleKey(items[k]), SlugKey(items[k]) >>
                         ELSE << None, None >>] } :
          /\ \A k \in 1..Len(items) :
                LET t == cands[k][1]
                    u == cands[k][2]
                    fresh(key) == \A j \in 1..(k - 1) : key \notin HitKeys(items[j])
                IN /\ t # None => \E i \in 1..Len(keys) : keys[i] = t
                   /\ u # None => \E i \in 1..Len(keys) : keys[i] = u
                   /\ (t # None /\ u # None /\ t # u /\ fresh(t) /\ fresh(u))
                        => \E i \in 1..(Len(keys) - 1) :
                              /\ keys[i] = t
                              /\ keys[i + 1] = u
                              /\ names[i][3] = items[k][1]
                              /\ names[i + 1][3] = items[k][1]
                   /\ (t # None /\ t = u)
                        => Cardinality({i \in 1..Len(keys) : keys[i] = t}) = 1
          /\ (\E k \in 1..Len(items) : items[k] = JaneHit)
                => \E i \in 1..Len(keys) : keys[i] = Jane

\* the case of C22: the batch holds a profile hit whose title and slug give
\* different names, after the hit of the example, whose title and slug agree
C22_Witness ==
    /\ fn_pc = "names"
    /\ Len(items) = 2
    /\ items[1] = JaneHit
    /\ TitleKey(items[1]) = Jane
    /\ SlugKey(items[1]) = Jane
    /\ OnProfile(items[2])
    /\ TitleKey(items[2]) # None
    /\ SlugKey(items[2]) # None
    /\ TitleKey(items[2]) # SlugKey(items[2])
    /\ Len(names) = 3
    /\ NameKeys[1] = Jane
    /\ NameKeys[2] = TitleKey(items[2])
    /\ NameKeys[3] = SlugKey(items[2])

\* ------------------------------------------------------------------------
\* Properties of the utilities
\* ------------------------------------------------------------------------

\* the path component of the URL, as urlparse gives it
PathOf(url) == UrlPath(url)

IsAlnum(c) == IsAlpha(c) \/ IsDigit(c)

\* the path ends in "." followed by 2 to 5 alphanumeric characters
ShortExtension(path) ==
    \E k \in 2..5 :
        /\ Len(path) > k
        /\ path[Len(path) - k] = "."
        /\ \A j \in (Len(path) - k + 1)..Len(path) : IsAlnum(path[j])

\* is_file_link is false for an empty path and for a path that ends in "/",
\* true for a path that ends in a short extension
C18_PathRules ==
    fn_pc = "classified" =>
        /\ (PathOf(link) = <<>> \/ PathOf(link)[Len(PathOf(link))] = "/")
              => ~file_like
        /\ (PathOf(link) # <<>> /\ ShortExtension(PathOf(link))) => file_like

\* C18: is_file_link returns false for every URL whose path is empty or ends
\* in "/", true when the path ends in "." followed by 2 to 5 alphanumeric
\* characters, and true for a URL whose extension appears in the query
\* string, as in "https://acme.com/view?file=report.pdf".
C18_FileClassifier ==
    /\ C18_PathRules
    /\ (fn_pc = "classified" /\ link = <<"h","t","t","p","s",":","/","/","a","c","m","e",".","c","o","m","/","v","i","e","w","?","f","i","l","e","=","r","e","p","o","r","t",".","p","d","f">>) => file_like

\* somewhere in the URL a "." and 2 to 5 alphanumeric characters stand
\* immediately before a "?" or a "#"
ExtensionThenDelimiter(url) ==
    \E i \in 1..Len(url) : \E k \in 2..5 :
        /\ i + k < Len(url)
        /\ url[i] = "."
        /\ \A j \in (i + 1)..(i + k) : IsAlnum(url[j])
        /\ url[i + k + 1] \in {"?", "#"}

\* C18 as the code has it: the two path rules hold; an extension in the
\* query string counts only when a "?" or a "#" follows it immediately, so
\* "https://acme.com/view?file=report.pdf" is not file-like.
C18_FileClassifierAmended ==
    /\ C18_PathRules
    /\ fn_pc = "classified" =>
          /\ file_like <=>
                /\ PathOf(link) # <<>>
                /\ PathOf(link)[Len(PathOf(link))] # "/"
                /\ ShortExtension(PathOf(link)) \/ ExtensionThenDelimiter(link)
          /\ link = <<"h","t","t","p","s",":","/","/","a","c","m","e",".","c","o","m","/","v","i","e","w","?","f","i","l","e","=","r","e","p","o","r","t",".","p","d","f">> => ~file_like

\* the URL of the example was classified
C18_Witness ==
    /\ fn_pc = "classified"
    /\ link = <<"h","t","t","p","s",":","/","/","a","c","m","e",".","c","o","m","/","v","i","e","w","?","f","i","l","e","=","r","e","p","o","r","t",".","p","d","f">>
    /\ ~file_like

\* no value was supplied: it is absent or empty
Absent(value) == value = None \/ value = <<>>

\* the template names a placeholder that has no value
Unresolvable(template) ==
    \/ Contains(template, DomainPlaceholder) /\ Absent(arg_domain)
    \/ Contains(template, CompanyPlaceholder) /\ Absent(arg_company)

\* the template read from left to right, each placeholder that has a value
\* giving its value and every other character itself
RECURSIVE Substituted(_)
Substituted(template) ==
    IF template = <<>> THEN <<>>
    ELSE IF OccursAt(template, DomainPlaceholder, 0) /\ ~Absent(arg_domain)
    THEN arg_domain \o Substituted(From(template, Len(DomainPlaceholder)))
    ELSE IF OccursAt(template, CompanyPlaceholder, 0) /\ ~Absent(arg_company)
    THEN arg_company \o Substituted(From(template, Len(CompanyPlaceholder)))
    ELSE <<Head(template)>> \o Substituted(Tail(template))

\* the files command has resolved its dorks, or failed to
DorksResolved ==
    /\ cmd = "files"
    /\ input_file = "none"
    /\ dorks_file # "missing"
    /\ dorks # <<>>
    /\ pc \notin {"start", "exited"}

C20_DryRunExecutesNothing ==
    dry_run =>
        /\ api_calls = 0
        /\ browser_launches = 0
        /\ ~serper_ran
        /\ ~browser_ran
        /\ ~output_written
        /\ pc # "download"
        /\ dl_pc = "idle"
        /\ pc \in {"returned", "exited"} => exit_code = 0

\* the characters the claim excludes: the separators of a path and the
\* characters <>:"|?*
ExcludedChars == {"/", "\\", "<", ">", ":", "\"", "|", "?", "*"}

\* the ASCII control characters: the codes below 32 and DEL, code 127
ControlChars == {"\t", "\n", "\r", "CTL", "DEL"}

\* the name is that of a direct child of the destination: not empty, without
\* an excluded character, not '.' or '..', its base no reserved device name
DirectChild(name) ==
    /\ name # <<>>
    /\ \A i \in 1..Len(name) : name[i] \notin ExcludedChars
    /\ name \notin { <<".">>, <<".",".">> }
    /\ Upper(SplitextRoot(name)) \notin RESERVED_NAMES

\* C25 as stated: whatever the Content-Disposition header, the URL path and
\* the content type supply, the name run_downloads writes to (after
\* sanitization and any collision suffix) is non-empty, holds no '/' or '\',
\* none of the characters <>:"|?* and no control character, is not '.' or
\* '..', and has no reserved device name as its base.
C25_NoControlCharacter ==
    fn_pc = "placed" =>
        /\ DirectChild(out_name)
        /\ \A i \in 1..Len(out_name) : out_name[i] \notin ControlChars

\* C25 amended: the name written to is non-empty, holds no '/' or '\', none
\* of the characters <>:"|?* and no control character with a code below 32,
\* is not '.' or '..', has no reserved device name as its base (the name
\* without its last extension), and is the name of no file the destination
\* held; DEL (code 127) is kept where the name supplied holds it.
C25_DirectChildName ==
    fn_pc = "placed" =>
        /\ DirectChild(out_name)
        /\ \A i \in 1..Len(out_name) : ~IsControl(out_name[i])
        /\ out_name \notin taken
        /\ final_name \notin taken => out_name = final_name
        /\ DirectChild(final_name)

\* the case of C25: a URL whose path decodes to "..\x.txt" was answered
\* without a Content-Disposition header, the name was sanitized to "_x.txt",
\* which the destination held together with "_x_1.txt", and the body went
\* to "_x_2.txt"
C25_Witness ==
    /\ fn_pc = "placed"
    /\ response.cd = <<>>
    /\ unquote(Basename(UrlPath(response.url)))
          = <<".", ".", "\\", "x", ".", "t", "x", "t">>
    /\ final_name = <<"_", "x", ".", "t", "x", "t">>
    /\ Cardinality(taken) = 2
    /\ final_name \in taken
    /\ out_name = <<"_", "x", "_", "2", ".", "t", "x", "t">>

====
